---- MODULE Spec2Model ----
(***************************************************************************)
(* Model of the AR photo application: the face-tracking loop and its       *)
(* smoothing store (js/face-filter.js), the retake / logout handlers       *)
(* (ui.js) and the crop computation of captureImage (capture.js).          *)
(*                                                                         *)
(* Numbers.  The code computes with IEEE doubles.  The model computes the  *)
(* same expressions exactly: a coordinate is a rational n / 50^e (record   *)
(* [n, e]) because SMOOTH_ALPHA = 0.38 = 19/50 and 1 - 0.38 = 31/50; the    *)
(* other factors of the code (0.2, 0.1, 0.07, 0.28, 0.5, 1/100) are exact  *)
(* in base 50 as well.  Records are kept normalised, so equal numbers are  *)
(* equal records.                                                          *)
(***************************************************************************)
EXTENDS Integers, Sequences, FiniteSets, TLC

VARIABLES
    \* ---- js/face-filter.js ----
    currentDecorationId,   \* selected decoration id
    faceDetector,          \* TRUE iff faceDetector is not null
    faceCanvas,            \* TRUE iff faceCanvas / faceCtx are not null
    faceCanvasW,           \* faceCanvas.width
    faceCanvasH,           \* faceCanvas.height
    faceAnimFrame,         \* last requestAnimationFrame handle, 0 = null
    faceFilterActive,
    _s,                    \* smoothing store: key -> value or Null
    overlay,               \* what faceCanvas shows: the drawDecoration calls since the last clear
    initPc,                \* position of initFaceFilter: "idle", "initializing", "done"
    \* ---- browser side of the loop ----
    rafPending,            \* handles of scheduled, not yet run animation callbacks
    sendInFlight,          \* callbacks suspended in `await faceDetector.send(...)`
    \* ---- camera / screens ----
    currentFacingMode,
    videoW, videoH,        \* cameraVideo.videoWidth / videoHeight
    videoReady,            \* cameraVideo.readyState >= 2
    screen,                \* "camera", "result" or "error"
    page,                  \* "app", or "leaving" once logout has started the navigation
    captureBtnDisabled,
    alertShown,            \* TRUE iff the last captureImage call ended in an alert()
    crop,                  \* [srcX, srcY, srcW, srcH] of the last capture
    \* ---- filter.js, frame asset, caption, capture.js ----
    filterScript,          \* which of the two filter.js the page has loaded: "first" or "second"
    currentFilterId,
    previewFilter,         \* cameraVideo.style.filter
    frameImage,            \* "null", or the state of the image it refers to
    messageConfig,
    drawFault,             \* the canvas step that throws when a capture reaches it ("none": no step does)
    out,                   \* [outW, outH] of the last capture
    drawLog,               \* canvas steps of the last captureImage / setFilter call, in call order
    resultCanvas,          \* [width, height, layers]
    \* ---- a pixel buffer handed to the pixel passes ----
    img,                   \* [w, h, px, todo]: px maps <<x, y>> to <<r, g, b, a>>, todo the passes still to run
    imgPrev,               \* img before the last pass
    \* ---- the same page fed the mirrored detections under the environment camera ----
    twin,                  \* [store, overlay]
    \* ---- frame selection ----
    frames,                \* [current, held, pending, started]: currentFrameId, the frame whose
                           \* image frameImage holds, the Image objects still loading
    \* ---- the shutter ----
    countdowns,            \* [live, presses, captures, waits]: the waits left of every startCountdown
                           \* call that has not returned, and counts of clicks, captureImage calls, waits
    \* ---- call log ----
    lastOp,                \* the last operation, when it is one the properties speak of
    lastKey, lastRaw,      \* arguments of the last smoothVal call
    lastResults,           \* the detections last delivered to onFaceResults
    wiped,                 \* TRUE iff the last operation emptied a drawn overlay or a seeded store
    ret,                   \* key -> value its last smoothVal call returned (Null: none since the reset)
    streak,                \* how many times in a row the last smoothVal call has been repeated
    used,                  \* keys used since creation / the last resetSmoothing
    nCalls,                \* smoothVal calls since creation / the last resetSmoothing
    raws                   \* key -> the raw values smoothVal was given for it since creation /
                           \* the last resetSmoothing

vars == << currentDecorationId, faceDetector, faceCanvas, faceCanvasW, faceCanvasH,
           faceAnimFrame, faceFilterActive, _s, overlay, initPc, rafPending,
           sendInFlight, currentFacingMode, videoW, videoH, videoReady, screen,
           page, captureBtnDisabled, alertShown, crop, lastOp, lastKey, lastRaw, lastResults, wiped,
           ret, streak, used, nCalls, filterScript, currentFilterId, previewFilter, frameImage,
           messageConfig, drawFault, out, drawLog, resultCanvas, img, imgPrev, twin, frames,
           countdowns, raws >>

faceVars   == << currentDecorationId, faceDetector, faceCanvas, faceCanvasW, faceCanvasH,
                 faceAnimFrame, faceFilterActive, overlay, initPc, rafPending,
                 sendInFlight >>
cameraVars == << currentFacingMode, videoW, videoH, videoReady >>
uiVars     == << screen, page, captureBtnDisabled, alertShown, crop >>
logVars    == << lastKey, lastRaw, ret, streak, used, nCalls, raws >>
envVars    == << filterScript, frameImage, messageConfig, drawFault >>
filterVars == << currentFilterId, previewFilter >>
shotVars   == << out, drawLog, resultCanvas >>
pixelVars  == << img, imgPrev >>
twinVars   == << twin >>
frameVars  == << frames >>
countdownVars == << countdowns >>

(***************************************************************************)
(* Bounds of the model.                                                    *)
(***************************************************************************)
MaxExp   == 2    \* longest chain of smoothing updates of one key without a reset
MaxLoops == 2    \* most animation callbacks alive (scheduled or awaiting the detector)
MaxRaw   == 2    \* raw inputs of the smoothing-store specification are 0..MaxRaw
MaxCalls == 4    \* smoothVal calls between two resets in the smoothing-store specification
MaxDim   == 40   \* source frames of the capture specification are up to MaxDim x MaxDim
MaxSide  == 4    \* pixel buffers of the pixel-pass specification are 3..MaxSide on a side
MirrorDepth == 1 \* longest chain of smoothing updates in the mirror specification
MaxSelects == 3  \* frame selections of the frame-selection specification
MaxPresses == 3  \* capture-button clicks of the shutter specification

(***************************************************************************)
(* Exact arithmetic on n / 50^e.                                           *)
(***************************************************************************)
RECURSIVE Pow50(_)
Pow50(k) == IF k <= 0 THEN 1 ELSE 50 * Pow50(k - 1)

RECURSIVE Norm(_)
Norm(r) == IF r.e > 0 /\ r.n % 50 = 0 THEN Norm([n |-> r.n \div 50, e |-> r.e - 1]) ELSE r

Rat(i)  == [n |-> i, e |-> 0]
Null    == [n |-> 0, e |-> -1]          \* null / undefined
MaxE(a, b) == IF a.e >= b.e THEN a.e ELSE b.e
Up(a, k)   == a.n * Pow50(k - a.e)      \* numerator of a over 50^k, k >= a.e
RatLeq(a, b) == Up(a, MaxE(a, b)) <= Up(b, MaxE(a, b))
RatSub(a, b) == Norm([n |-> Up(a, MaxE(a, b)) - Up(b, MaxE(a, b)), e |-> MaxE(a, b)])
RatAdd(a, b) == Norm([n |-> Up(a, MaxE(a, b)) + Up(b, MaxE(a, b)), e |-> MaxE(a, b)])
RatAbs(a)    == [n |-> IF a.n < 0 THEN -a.n ELSE a.n, e |-> a.e]
RatMul(k, a) == Norm([n |-> k * a.n, e |-> a.e])          \* integer k times a
RatDiv50(a)  == Norm([n |-> a.n, e |-> a.e + 1])          \* a / 50

(***************************************************************************)
(* Smoothing store.                                                        *)
(***************************************************************************)
SMOOTH_ALPHA_NUM == 19     \* SMOOTH_ALPHA = 0.38 = 19/50
SMOOTH_ALPHA_DEN == 50

SmoothKeys == {"bx", "by", "bw", "bh", "rex", "rey", "lex", "ley", "nx", "ny", "mx", "my"}

\* a mutant of Ema: the weights are 1 + SMOOTH_ALPHA and -SMOOTH_ALPHA
EmaOvershoot(prev, v) ==
    LET k == MaxE(prev, v)
    IN  Norm([n |-> (SMOOTH_ALPHA_DEN + SMOOTH_ALPHA_NUM) * Up(prev, k)
                     - SMOOTH_ALPHA_NUM * Up(v, k),
              e |-> k + 1])

\* _s[key] * (1 - SMOOTH_ALPHA) + v * SMOOTH_ALPHA
Ema(prev, v) ==
    LET k == MaxE(prev, v)
    IN  Norm([n |-> (SMOOTH_ALPHA_DEN - SMOOTH_ALPHA_NUM) * Up(prev, k)
                     + SMOOTH_ALPHA_NUM * Up(v, k),
              e |-> k + 1])

\* a mutant of smoothVal: the two weights swapped
smoothValSwapped(store, key, v) ==
    [store EXCEPT ![key] = IF store[key] = Null THEN v
                           ELSE RatAdd(RatDiv50(RatMul(19, store[key])), RatDiv50(RatMul(31, v)))]

\* a mutant of smoothVal: every key is written
smoothValAllKeys(store, key, v) ==
    [k \in DOMAIN store |-> IF store[key] = Null THEN v ELSE Ema(store[key], v)]

\* smoothVal(key, v): the store after the call; the call returns the new store[key]
smoothVal(store, key, v) ==
    [store EXCEPT ![key] = IF store[key] = Null THEN v ELSE Ema(store[key], v)]

resetSmoothing(store) == [k \in DOMAIN store |-> Null]

Depth(store) ==
    LET es == {store[k].e : k \in DOMAIN store}
    IN  CHOOSE m \in es : \A x \in es : x <= m

\* an upper bound of Depth after n more render passes (raw coordinates have e <= 1)
DepthAfter(store, n) ==
    IF Depth(store) < 1 THEN n ELSE Depth(store) + n

(***************************************************************************)
(* Detector results.  Normalised coordinates are given in hundredths.      *)
(***************************************************************************)
Pt(x, y) == [x |-> x, y |-> y]

\* a face without landmarks (box only)
FaceA == [boundingBox |-> [xCenter |-> 50, yCenter |-> 40, width |-> 30, height |-> 50],
          landmarks   |-> << >>]
\* a face with the six landmarks: right eye, left eye, nose, mouth, right ear, left ear
FaceB == [boundingBox |-> [xCenter |-> 30, yCenter |-> 60, width |-> 20, height |-> 20],
          landmarks   |-> << Pt(26, 56), Pt(34, 56), Pt(30, 61), Pt(30, 66), Pt(21, 58), Pt(39, 58) >>]

\* the detection of the end-to-end scenario: box centre (0.5, 0.4), width and height 0.3
FaceC == [boundingBox |-> [xCenter |-> 50, yCenter |-> 40, width |-> 30, height |-> 30],
          landmarks   |-> << Pt(44, 36), Pt(56, 36), Pt(50, 42), Pt(50, 48), Pt(37, 38), Pt(63, 38) >>]

ResultSet == { << >>, << FaceB >>, << FaceA, FaceB >> }

\* normalised p (hundredths) times the canvas side, in pixels
Px(p, side) == Norm([n |-> p * side * 25, e |-> 2])
Frac(num, a) == RatDiv50(RatMul(num, a))      \* (num / 50) * a

\* raw coordinates of one detection
RawCoords(det, W, H) ==
    LET box == det.boundingBox
        lm  == det.landmarks
        has == lm # << >>
        rBx == Px(box.xCenter, W)
        rBy == Px(box.yCenter, H)
        rBw == Px(box.width, W)
        rBh == Px(box.height, H)
    IN  [bx  |-> rBx, by |-> rBy, bw |-> rBw, bh |-> rBh,
         rex |-> IF has THEN Px(lm[1].x, W) ELSE RatSub(rBx, Frac(10, rBw)),
         rey |-> IF has THEN Px(lm[1].y, H) ELSE RatSub(rBy, Frac(5, rBh)),
         lex |-> IF has THEN Px(lm[2].x, W) ELSE RatAdd(rBx, Frac(10, rBw)),
         ley |-> IF has THEN Px(lm[2].y, H) ELSE RatSub(rBy, Frac(5, rBh)),
         nx  |-> IF has THEN Px(lm[3].x, W) ELSE rBx,
         ny  |-> IF has THEN Px(lm[3].y, H) ELSE RatAdd(rBy, RatDiv50(Frac(175, rBh))),
         mx  |-> IF has THEN Px(lm[4].x, W) ELSE rBx,
         my  |-> IF has THEN Px(lm[4].y, H) ELSE RatAdd(rBy, Frac(14, rBh))]

\* the twelve smoothVal calls of one render pass
SmoothPass(store, raw) ==
    [k \in DOMAIN store |-> smoothVal(store, k, raw[k])[k]]

\* the canonical frame handed to drawDecoration (the derived coordinates are
\* functions of these fields, see FaceTop)
Frame(id, flipped, store, W, H) ==
    [id |-> id, flipped |-> flipped, W |-> W, H |-> H, c |-> store]

FaceTop(f) == RatSub(f.c["by"], Frac(25, f.c["bh"]))

\* (num / 2500) * a
Frac2(num, a) == RatDiv50(Frac(num, a))

\* a mutant of Crown: the crown hangs from the face-top edge
CrownHanging(f) ==
    LET cw == Frac(44, f.c["bw"])
        ch == Frac(20, f.c["bh"])
        cx == RatSub(f.c["bx"], Frac(25, cw))
        cy == FaceTop(f)
    IN  [cx |-> cx, cy |-> cy, cw |-> cw, ch |-> ch,
         bandTop    |-> RatAdd(cy, Frac2(1125, ch)),
         bandBottom |-> RatAdd(RatAdd(cy, Frac2(1125, ch)), Frac2(1375, ch)),
         spikeBase  |-> RatAdd(cy, Frac2(1125, ch)),
         spikeTip   |-> cy,
         jewelX     |-> f.c["bx"],
         jewelY     |-> RatAdd(cy, Frac(35, ch))]

\* drawDecoration, case 'crown': the box of the crown (cx, cy, cw, ch), its band
\* rect(cx, cy + ch * 0.45, cw, ch * 0.55), the base line and the highest tip of
\* its five spikes and the centre of its jewel
Crown(f) ==
    LET cw == Frac(44, f.c["bw"])
        ch == Frac(20, f.c["bh"])
        cx == RatSub(f.c["bx"], Frac(25, cw))
        cy == RatSub(FaceTop(f), Frac(41, ch))
    IN  [cx |-> cx, cy |-> cy, cw |-> cw, ch |-> ch,
         bandTop    |-> RatAdd(cy, Frac2(1125, ch)),
         bandBottom |-> RatAdd(RatAdd(cy, Frac2(1125, ch)), Frac2(1375, ch)),
         spikeBase  |-> RatAdd(cy, Frac2(1125, ch)),
         spikeTip   |-> cy,
         jewelX     |-> f.c["bx"],
         jewelY     |-> RatAdd(cy, Frac(35, ch))]

\* detections.forEach: state is [store, overlay]
RECURSIVE RenderPasses(_, _, _, _, _, _)
RenderPasses(st, dets, id, flipped, W, H) ==
    IF dets = << >> THEN st
    ELSE LET store2 == SmoothPass(st.store, RawCoords(Head(dets), W, H))
         IN  RenderPasses([store   |-> store2,
                           overlay |-> Append(st.overlay, Frame(id, flipped, store2, W, H))],
                          Tail(dets), id, flipped, W, H)

\* a mutant of onFaceResults: a result without detections leaves the store alone
onFaceResultsKeepStore(st, results, canvas, id, facing, W, H) ==
    IF ~canvas THEN st
    ELSE IF results = << >> THEN [store |-> st.store, overlay |-> << >>]
    ELSE IF id = "none" THEN [store |-> st.store, overlay |-> << >>]
    ELSE RenderPasses([store |-> st.store, overlay |-> << >>], results, id,
                      facing = "user", W, H)

\* a mutant of onFaceResults: 'none' is drawn like any decoration
onFaceResultsDrawsNone(st, results, canvas, id, facing, W, H) ==
    IF ~canvas THEN st
    ELSE IF results = << >> THEN [store |-> resetSmoothing(st.store), overlay |-> << >>]
    ELSE RenderPasses([store |-> st.store, overlay |-> << >>], results, id,
                      facing = "user", W, H)

\* onFaceResults(results): st is [store, overlay]
onFaceResults(st, results, canvas, id, facing, W, H) ==
    IF ~canvas THEN st
    ELSE IF results = << >> THEN [store |-> resetSmoothing(st.store), overlay |-> << >>]
    ELSE IF id = "none" THEN [store |-> st.store, overlay |-> << >>]
    ELSE RenderPasses([store |-> st.store, overlay |-> << >>], results, id,
                      facing = "user", W, H)

(***************************************************************************)
(* The tracking loop.  ff is the record [active, anim, pending, overlay,   *)
(* store] of faceFilterActive, faceAnimFrame, the scheduled animation      *)
(* callbacks, the overlay surface and _s.                                  *)
(***************************************************************************)
Handles == 1 .. (MaxLoops + 1)

FF == [active |-> faceFilterActive, anim |-> faceAnimFrame, pending |-> rafPending,
       overlay |-> overlay, store |-> _s]

SetFF(ff) ==
    /\ faceFilterActive' = ff.active
    /\ faceAnimFrame' = ff.anim
    /\ rafPending' = ff.pending
    /\ overlay' = ff.overlay
    /\ _s' = ff.store

\* requestAnimationFrame returns a handle no live callback and no variable holds
FreshHandle(ff, inflight) ==
    CHOOSE h \in Handles :
        /\ h \notin (ff.pending \cup inflight \cup {ff.anim})
        /\ \A g \in Handles : g \notin (ff.pending \cup inflight \cup {ff.anim}) => h <= g

\* a mutant of startFaceLoop: the loop is scheduled only while no handle is stored
startFaceLoopOnce(ff, detector, inflight) ==
    IF ~detector \/ ~ff.active \/ ff.anim # 0 THEN ff
    ELSE LET h == FreshHandle(ff, inflight)
         IN  [ff EXCEPT !.anim = h, !.pending = @ \cup {h}]

startFaceLoop(ff, detector, inflight) ==
    IF ~detector \/ ~ff.active THEN ff
    ELSE LET h == FreshHandle(ff, inflight)
         IN  [ff EXCEPT !.anim = h, !.pending = @ \cup {h}]

\* a mutant of stopFaceLoop: the stored handle is cancelled but not forgotten
stopFaceLoopKeepHandle(ff, canvas) ==
    [active  |-> FALSE,
     anim    |-> ff.anim,
     pending |-> IF ff.anim # 0 THEN ff.pending \ {ff.anim} ELSE ff.pending,
     overlay |-> IF canvas THEN << >> ELSE ff.overlay,
     store   |-> resetSmoothing(ff.store)]

stopFaceLoop(ff, canvas) ==
    [active  |-> FALSE,
     anim    |-> 0,
     pending |-> IF ff.anim # 0 THEN ff.pending \ {ff.anim} ELSE ff.pending,
     overlay |-> IF canvas THEN << >> ELSE ff.overlay,
     store   |-> resetSmoothing(ff.store)]

\* syncFaceCanvas: the size the canvas has afterwards
syncFaceCanvas(canvas, cw, ch, vw0, vh0) ==
    LET vw == IF vw0 # 0 THEN vw0 ELSE cw
        vh == IF vh0 # 0 THEN vh0 ELSE ch
    IN  IF ~canvas THEN << cw, ch >>
        ELSE IF cw # vw \/ ch # vh THEN << vw, vh >> ELSE << cw, ch >>

Alive == rafPending \cup sendInFlight

(***************************************************************************)
(* Capture: the crop rectangle of captureImage.                            *)
(***************************************************************************)
\* Math.round of the non-negative rational num / den
Round(num, den) == (2 * num + den) \div (2 * den)

NoCrop == [srcX |-> 0, srcY |-> 0, srcW |-> 0, srcH |-> 0]

\* a mutant of CropRect: the offsets are computed from the uncropped side
CropRectOffEdge(vw, vh) ==
    IF 3 * vw > 4 * vh
    THEN LET srcW == Round(4 * vh, 3)
         IN  [srcX |-> Round(vw, 2), srcY |-> 0, srcW |-> srcW, srcH |-> vh]
    ELSE LET srcH == Round(3 * vw, 4)
         IN  [srcX |-> 0, srcY |-> Round(vh, 2), srcW |-> vw, srcH |-> srcH]

\* targetAspect = 4 / 3 and videoAspect = videoW / videoH: for integer sides
\* videoAspect > targetAspect iff 3 * videoW > 4 * videoH, videoH * targetAspect
\* is never half-way between two integers and videoW / targetAspect rounds up
\* when it is, as Math.round does, so Round gives the values the doubles give.
CropRect(vw, vh) ==
    IF 3 * vw > 4 * vh
    THEN LET srcW == Round(4 * vh, 3)
         IN  [srcX |-> Round(vw - srcW, 2), srcY |-> 0, srcW |-> srcW, srcH |-> vh]
    ELSE LET srcH == Round(3 * vw, 4)
         IN  [srcX |-> 0, srcY |-> Round(vh - srcH, 2), srcW |-> vw, srcH |-> srcH]

(***************************************************************************)
(* Capture: the output size.                                               *)
(***************************************************************************)
MAX_OUT == 1920     \* the literal 1920 of `Math.min(1920 / srcW, 1920 / srcH, 1)`

\* a mutant of OutSize: the longer side is always brought to 1920
OutSizeStretch(srcW, srcH) ==
    IF srcW >= srcH
    THEN [outW |-> MAX_OUT, outH |-> Round(srcH * MAX_OUT, srcW)]
    ELSE [outW |-> Round(srcW * MAX_OUT, srcH), outH |-> MAX_OUT]

\* scale = Math.min(1920 / srcW, 1920 / srcH, 1); outW = Math.round(srcW * scale),
\* outH = Math.round(srcH * scale).  The smaller quotient is the one of the longer
\* side, and srcW * (1920 / srcW) rounds to 1920.
OutSize(srcW, srcH) ==
    IF srcW <= MAX_OUT /\ srcH <= MAX_OUT
    THEN [outW |-> srcW, outH |-> srcH]
    ELSE IF srcW >= srcH
    THEN [outW |-> MAX_OUT, outH |-> Round(srcH * MAX_OUT, srcW)]
    ELSE [outW |-> Round(srcW * MAX_OUT, srcH), outH |-> MAX_OUT]

NoOut == [outW |-> 0, outH |-> 0]

(***************************************************************************)
(* filter.js: the registry.  A pixel pass is the sequence of the pass      *)
(* functions `apply` calls (empty: apply is null); a pass call is          *)
(* [fn, a, color] with a the intensity of a grain or the strength of a     *)
(* vignette in hundredths.                                                 *)
(***************************************************************************)
Pass(fn, a, color) == [fn |-> fn, a |-> a, color |-> color]

FilterDef(id, css, apply) == [id |-> id, cssFilter |-> css, apply |-> apply]

\* FILTERS of the first filter.js
FILTERS_first ==
    << FilterDef("none", "none", << >>),
       FilterDef("film", "contrast(1.15) saturate(1.3) brightness(0.92) sepia(15%)",
                 << Pass("applyGrain", 18, FALSE) >>),
       FilterDef("mono", "grayscale(100%) contrast(1.15) brightness(1.05)", << >>),
       FilterDef("sepia", "sepia(85%) brightness(0.95) contrast(1.1)", << >>),
       FilterDef("soft", "brightness(1.18) saturate(1.25) contrast(0.9)",
                 << Pass("applyGlow", 0, FALSE) >>),
       FilterDef("warm", "sepia(35%) saturate(1.6) hue-rotate(-15deg) brightness(1.08)", << >>),
       FilterDef("cool", "hue-rotate(20deg) saturate(1.35) brightness(1.08) contrast(1.05)", << >>),
       FilterDef("watercolor", "saturate(1.8) brightness(1.1) contrast(0.85)",
                 << Pass("applyWatercolor", 0, FALSE) >>),
       FilterDef("noise", "contrast(1.2) brightness(0.95)",
                 << Pass("applyGrain", 35, FALSE) >>),
       FilterDef("sketch", "grayscale(80%) contrast(1.5) brightness(1.1)",
                 << Pass("applySketch", 0, FALSE) >>) >>

\* FILTERS of the second filter.js
FILTERS_second ==
    << FilterDef("none", "none", << >>),
       FilterDef("film", "contrast(1.5) saturate(0.72) brightness(0.85) sepia(38%)",
                 << Pass("applyGrain", 44, TRUE), Pass("applyVignette", 58, FALSE) >>),
       FilterDef("mono", "grayscale(100%) contrast(1.8) brightness(1.05)",
                 << Pass("applyVignette", 62, FALSE) >>),
       FilterDef("sepia", "sepia(100%) contrast(1.32) brightness(0.84) saturate(1.55)",
                 << Pass("applyGrain", 22, FALSE), Pass("applyVignette", 52, FALSE) >>),
       FilterDef("soft", "brightness(1.42) saturate(1.65) contrast(0.76)",
                 << Pass("applyGlow", 0, FALSE) >>),
       FilterDef("warm", "sepia(58%) saturate(2.4) hue-rotate(-22deg) brightness(1.14) contrast(1.1)",
                 << Pass("applyVignette", 42, FALSE) >>),
       FilterDef("cool", "hue-rotate(38deg) saturate(2.1) brightness(1.06) contrast(1.22)", << >>),
       FilterDef("watercolor", "saturate(2.5) brightness(1.2) contrast(0.7)",
                 << Pass("applyWatercolor", 0, FALSE) >>),
       FilterDef("noise", "contrast(1.38) brightness(0.88) saturate(0.65)",
                 << Pass("applyGrain", 72, FALSE) >>),
       FilterDef("sketch", "grayscale(100%) contrast(2.3) brightness(1.22)",
                 << Pass("applySketch", 0, FALSE) >>) >>

FILTERS(script) == IF script = "first" THEN FILTERS_first ELSE FILTERS_second

FilterIds == {FILTERS_second[i].id : i \in DOMAIN FILTERS_second}

\* FILTERS.find(f => f.id === currentFilterId) || FILTERS[0]
getCurrentFilter(script, id) ==
    LET T == FILTERS(script)
    IN  IF \E i \in DOMAIN T : T[i].id = id
        THEN T[CHOOSE i \in DOMAIN T : T[i].id = id]
        ELSE T[1]

getCanvasFilterString(script, id) == getCurrentFilter(script, id).cssFilter

\* applyFilterToPreview: the value of cameraVideo.style.filter afterwards
applyFilterToPreview(script, id) ==
    LET f == getCurrentFilter(script, id)
    IN  IF f.cssFilter = "none" THEN "" ELSE f.cssFilter

\* `typeof applyFilterToCanvas === 'function'`: only the first filter.js defines it
HasApplyFilterToCanvas(script) == script = "first"

(***************************************************************************)
(* capture.js: the caption block.                                          *)
(***************************************************************************)
Field(enabled, value) == [enabled |-> enabled, value |-> value]

\* date strings the message editor can hold: none, a calendar day, a malformed one
DateValues == {"", "2024-05-01", "2024-13-45"}

\* new Date(value): the calendar day, or Invalid Date (y = 0)
ParseDate(value) ==
    IF value = "2024-05-01" THEN [y |-> 2024, month |-> 4, d |-> 1]
    ELSE [y |-> 0, month |-> 0, d |-> 0]

IsNaNDate(d) == d.y = 0

Line(kind, text, y, m, d) == [kind |-> kind, text |-> text, y |-> y, m |-> m, d |-> d]

\* `${d.getFullYear()}年${d.getMonth() + 1}月${d.getDate()}日`
DateLine(d) == Line("date", "", d.y, d.month + 1, d.d)

\* cfg.x && cfg.x.enabled && cfg.x.value
Has(field) == field.enabled /\ field.value # ""

\* a mutant of CaptionLines: a date that does not parse still gives a line
CaptionLinesKeepInvalid(cfg) ==
    (IF Has(cfg.date) THEN << DateLine(ParseDate(cfg.date.value)) >> ELSE << >>)
    \o (IF Has(cfg.text) THEN << Line("text", cfg.text.value, 0, 0, 0) >> ELSE << >>)
    \o (IF Has(cfg.location) THEN << Line("location", cfg.location.value, 0, 0, 0) >> ELSE << >>)

\* the array `lines` of drawMessageOnCanvas
CaptionLines(cfg) ==
    (IF Has(cfg.date) /\ ~IsNaNDate(ParseDate(cfg.date.value))
     THEN << DateLine(ParseDate(cfg.date.value)) >> ELSE << >>)
    \o (IF Has(cfg.text) THEN << Line("text", cfg.text.value, 0, 0, 0) >> ELSE << >>)
    \o (IF Has(cfg.location) THEN << Line("location", cfg.location.value, 0, 0, 0) >> ELSE << >>)

\* a call on the 2D context: op is a method or the property assigned, i the
\* index of the caption line it serves (0: none)
Call(op, i) == [op |-> op, i |-> i]

PanelCalls ==
    << Call("fillStyle", 0), Call("beginPath", 0), Call("roundRect", 0), Call("fill", 0),
       Call("strokeStyle", 0), Call("lineWidth", 0), Call("stroke", 0),
       Call("textAlign", 0), Call("textBaseline", 0) >>

RECURSIVE TextCalls(_, _)
TextCalls(i, n) ==
    IF i > n THEN << >>
    ELSE << Call("font", i), Call("fillStyle", i), Call("fillText", i),
            Call("fillStyle", i), Call("fillText", i) >> \o TextCalls(i + 1, n)

\* a mutant of drawMessageOnCanvas: the panel is drawn before the lines are counted
drawMessageOnCanvasPanelFirst(cfg) ==
    LET lines == CaptionLines(cfg)
    IN  << Call("save", 0) >> \o PanelCalls \o TextCalls(1, Len(lines)) \o << Call("restore", 0) >>

\* drawMessageOnCanvas(ctx, width, height): the calls it makes on ctx, in order
drawMessageOnCanvas(cfg) ==
    LET lines == CaptionLines(cfg)
    IN  IF ~Has(cfg.date) /\ ~Has(cfg.text) /\ ~Has(cfg.location) THEN << >>
        ELSE IF lines = << >> THEN << Call("save", 0), Call("restore", 0) >>
        ELSE << Call("save", 0) >> \o PanelCalls \o TextCalls(1, Len(lines))
             \o << Call("restore", 0) >>

DrawingOps == {"fill", "stroke", "fillText"}
StateOps   == {"fillStyle", "strokeStyle", "lineWidth", "textAlign", "textBaseline", "font",
               "beginPath", "roundRect"}

Draws(calls) == {k \in DOMAIN calls : calls[k].op \in DrawingOps}

\* the drawing state of a context after the calls, against the state before:
\* changed is the set of properties (and the current path) that differ, saved
\* the stack of save()
RECURSIVE CtxAfter(_, _)
CtxAfter(st, calls) ==
    IF calls = << >> THEN st
    ELSE LET c == Head(calls)
             st2 == IF c.op = "save"
                    THEN [changed |-> st.changed, saved |-> << st.changed >> \o st.saved]
                    ELSE IF c.op = "restore"
                    THEN IF st.saved = << >> THEN st
                         ELSE [changed |-> Head(st.saved) \cup (st.changed \cap {"beginPath", "roundRect"}),
                               saved |-> Tail(st.saved)]
                    ELSE IF c.op \in StateOps
                    THEN [changed |-> st.changed \cup {c.op}, saved |-> st.saved]
                    ELSE st
         IN  CtxAfter(st2, Tail(calls))

CtxClean == [changed |-> {}, saved |-> << >>]

(***************************************************************************)
(* capture.js: captureImage.  A capture is described by the steps it makes *)
(* on its work canvas; a step that throws is logged with threw = TRUE.     *)
(***************************************************************************)
Step(layer, threw, mirrored, filter, passes, dw, dh, lines) ==
    [layer |-> layer, threw |-> threw, mirrored |-> mirrored, filter |-> filter,
     passes |-> passes, dw |-> dw, dh |-> dh, lines |-> lines]

FrameStates == {"null", "incomplete", "broken", "loaded"}

\* a mutant of FrameReady: an image whose load has failed counts as ready
FrameReadyBroken(fi) == fi \in {"loaded", "broken"}

\* frameImage && frameImage.complete && frameImage.naturalWidth > 0
FrameReady(fi) == fi = "loaded"

\* layer 1: ctx.filter = filterStr; drawImage(cameraVideo, crop..., 0, 0, outW, outH)
\* under translate / scale(-1, 1) for the user-facing camera; ctx.filter = 'none'
CameraStep(in, o) ==
    << Step("camera", in.fault = "camera", in.facing = "user",
            getCanvasFilterString(in.script, in.filterId), << >>, o.outW, o.outH, << >>) >>

\* layer 1b: f.apply(ctx, outW, outH)
PixelStep(in, o) ==
    LET f == getCurrentFilter(in.script, in.filterId)
    IN  IF HasApplyFilterToCanvas(in.script) /\ f.apply # << >>
        THEN << Step("pixel", in.fault = "pixel", FALSE, "none", f.apply, o.outW, o.outH, << >>) >>
        ELSE << >>

\* layer 2: drawFaceFilterOnCanvas(ctx, outW, outH)
OverlayStep(in, o) ==
    IF in.canvas /\ in.decoration # "none"
    THEN << Step("overlay", in.fault = "overlay", FALSE, "none", << >>, o.outW, o.outH, << >>) >>
    ELSE << >>

\* layer 3: ctx.drawImage(frameImage, 0, 0, outW, outH)
FrameStep(in, o) ==
    IF FrameReady(in.frame)
    THEN << Step("frame", in.fault = "frame", FALSE, "none", << >>, o.outW, o.outH, << >>) >>
    ELSE << >>

\* layer 4: drawMessageOnCanvas(ctx, outW, outH); a throw ends it at its first
\* drawing call
CaptionStep(in, o) ==
    LET calls == drawMessageOnCanvas(in.cfg)
    IN  IF Draws(calls) = {} THEN << >>
        ELSE IF in.fault = "caption"
        THEN << Step("caption", TRUE, FALSE, "none", << >>, o.outW, o.outH, << >>) >>
        ELSE << Step("caption", FALSE, FALSE, "none", << >>, o.outW, o.outH, CaptionLines(in.cfg)) >>

\* a mutant of Layers: the frame asset is drawn before the decoration overlay
LayersFrameFirst(in, o) ==
    LET head == CameraStep(in, o)
        pix  == PixelStep(in, o)
    IN  IF head[1].threw THEN head
        ELSE IF pix # << >> /\ pix[1].threw THEN head \o pix
        ELSE head \o pix \o FrameStep(in, o) \o OverlayStep(in, o) \o CaptionStep(in, o)

\* the steps made on the work canvas: a throw of the camera step or of the pixel
\* pass leaves the try block, a throw of a later step is caught on the spot
Layers(in, o) ==
    LET head == CameraStep(in, o)
        pix  == PixelStep(in, o)
    IN  IF head[1].threw THEN head
        ELSE IF pix # << >> /\ pix[1].threw THEN head \o pix
        ELSE head \o pix \o OverlayStep(in, o) \o FrameStep(in, o) \o CaptionStep(in, o)

Faults == {"none", "camera", "pixel", "overlay", "frame", "caption", "result"}

\* TRUE iff the steps ended in a throw that left the try block
Escaped(log) == log[Len(log)].threw /\ log[Len(log)].layer \in {"camera", "pixel"}

DefaultCanvas == [width |-> 300, height |-> 150, layers |-> << >>]

\* a mutant of captureImage: the pre-check only looks at the width
captureImageWidthOnly(in) ==
    IF in.vw = 0
    THEN [stage |-> "precheck", crop |-> in.crop, out |-> in.out, log |-> << >>,
          result |-> in.result]
    ELSE LET c   == CropRect(in.vw, in.vh)
             o   == OutSize(c.srcW, c.srcH)
             log == Layers(in, o)
         IN  IF Escaped(log)
             THEN [stage |-> "failed", crop |-> c, out |-> o, log |-> log, result |-> in.result]
             ELSE [stage |-> "done", crop |-> c, out |-> o, log |-> log,
                   result |-> [width |-> o.outW, height |-> o.outH, layers |-> log]]

\* captureImage(): in holds what it reads; stage is "precheck" (alert, return),
\* "failed" (the catch block: alert) or "done" (showScreen('result'))
captureImage(in) ==
    IF in.vw = 0 \/ in.vh = 0
    THEN [stage |-> "precheck", crop |-> in.crop, out |-> in.out, log |-> << >>,
          result |-> in.result]
    ELSE LET c   == CropRect(in.vw, in.vh)
             o   == OutSize(c.srcW, c.srcH)
             log == Layers(in, o)
         IN  IF Escaped(log)
             THEN [stage |-> "failed", crop |-> c, out |-> o, log |-> log, result |-> in.result]
             ELSE IF in.fault = "result"
             THEN [stage |-> "failed", crop |-> c, out |-> o, log |-> log,
                   result |-> [width |-> o.outW, height |-> o.outH, layers |-> << >>]]
             ELSE [stage |-> "done", crop |-> c, out |-> o, log |-> log,
                   result |-> [width |-> o.outW, height |-> o.outH, layers |-> log]]

(***************************************************************************)
(* Initial states.                                                         *)
(***************************************************************************)
InitFace ==
    /\ currentDecorationId = "none"
    /\ faceDetector = FALSE
    /\ faceCanvas = FALSE
    /\ faceCanvasW = 300
    /\ faceCanvasH = 150
    /\ faceAnimFrame = 0
    /\ faceFilterActive = FALSE
    /\ _s = [k \in SmoothKeys |-> Null]
    /\ overlay = << >>
    /\ initPc = "idle"
    /\ rafPending = {}
    /\ sendInFlight = {}

InitLog ==
    /\ lastOp = "load"
    /\ lastKey = "bx"
    /\ lastRaw = Rat(0)
    /\ lastResults = << >>
    /\ wiped = FALSE
    /\ ret = [k \in SmoothKeys |-> Null]
    /\ streak = 0
    /\ used = {}
    /\ nCalls = 0
    /\ raws = [k \in SmoothKeys |-> {}]

InitUi ==
    /\ page = "app"
    /\ captureBtnDisabled = FALSE
    /\ alertShown = FALSE
    /\ crop = NoCrop

\* messageConfig once the load handler has put today's date into it
DefaultMessage ==
    [date |-> Field(TRUE, "2024-05-01"), text |-> Field(TRUE, "congratulations"),
     location |-> Field(TRUE, "")]

InitShot ==
    /\ out = NoOut
    /\ drawLog = << >>
    /\ resultCanvas = DefaultCanvas

\* no buffer
NoImg == [w |-> 0, h |-> 0, px |-> << >>, todo |-> << >>]

\* no frame selected, nothing loading
NoFrames == [current |-> "", held |-> "", pending |-> {}, started |-> 0]

NoTwin == [store |-> [k \in SmoothKeys |-> Null], overlay |-> << >>]

\* no startCountdown call is running
NoCountdowns == [live |-> << >>, presses |-> 0, captures |-> 0, waits |-> 0]

InitPixels ==
    /\ img = NoImg
    /\ imgPrev = NoImg
    /\ twin = NoTwin
    /\ frames = NoFrames
    /\ countdowns = NoCountdowns

InitCompose ==
    /\ filterScript = "second"
    /\ currentFilterId = "none"
    /\ previewFilter = ""
    /\ frameImage = "null"
    /\ messageConfig = DefaultMessage
    /\ drawFault = "none"
    /\ InitShot
    /\ InitPixels

\* the page as loaded: no detector, no stream yet
Init ==
    /\ InitFace /\ InitLog /\ InitUi /\ InitCompose
    /\ currentFacingMode = "user"
    /\ videoW = 0 /\ videoH = 0 /\ videoReady = FALSE
    /\ screen = "camera"

(***************************************************************************)
(* Operations of the face filter.                                          *)
(***************************************************************************)
\* initFaceFilter up to its await: env is what the page offers
InitFaceFilter(env) ==
    /\ initPc = "idle"
    /\ faceCanvas' = (env # "no_canvas")
    /\ faceDetector' = (env = "ok")
    /\ initPc' = IF env = "ok" THEN "initializing" ELSE "done"
    /\ lastOp' = "other"
    /\ wiped' = FALSE
    /\ UNCHANGED << currentDecorationId, faceCanvasW, faceCanvasH, faceAnimFrame,
                    faceFilterActive, _s, overlay, rafPending, sendInFlight, lastResults >>
    /\ UNCHANGED << cameraVars, uiVars, logVars, envVars, filterVars, shotVars, pixelVars, twinVars, frameVars, countdownVars >>

\* faceDetector.initialize() settles
InitFaceFilterSettled(ok) ==
    /\ initPc = "initializing"
    /\ initPc' = "done"
    /\ faceDetector' = ok
    /\ lastOp' = "other"
    /\ wiped' = FALSE
    /\ UNCHANGED << currentDecorationId, faceCanvas, faceCanvasW, faceCanvasH, faceAnimFrame,
                    faceFilterActive, _s, overlay, rafPending, sendInFlight, lastResults >>
    /\ UNCHANGED << cameraVars, uiVars, logVars, envVars, filterVars, shotVars, pixelVars, twinVars, frameVars, countdownVars >>

\* click on a decoration item (the page has called initFaceFilter by then)
SelectDecoration(d) ==
    /\ page = "app" /\ screen = "camera"
    /\ initPc # "idle"
    /\ d = "none" \/ Cardinality(Alive) < MaxLoops
    /\ currentDecorationId' = d
    /\ IF d = "none"
       THEN SetFF(stopFaceLoop(FF, faceCanvas))
       ELSE SetFF(startFaceLoop([FF EXCEPT !.active = TRUE], faceDetector, sendInFlight))
    /\ lastOp' = IF d = "none" THEN "selectNone" ELSE "selectDecoration"
    /\ wiped' = (d = "none" /\ (overlay # << >> \/ ~(\A k \in SmoothKeys : _s[k] = Null)))
    /\ UNCHANGED << faceDetector, faceCanvas, faceCanvasW, faceCanvasH, initPc,
                    sendInFlight, lastResults >>
    /\ UNCHANGED << cameraVars, uiVars, logVars, envVars, filterVars, shotVars, pixelVars, twinVars, frameVars, countdownVars >>

\* the animation callback of startFaceLoop, up to its await
AnimationFrame(h) ==
    /\ h \in rafPending
    /\ IF videoReady
       THEN LET size == syncFaceCanvas(faceCanvas, faceCanvasW, faceCanvasH, videoW, videoH)
            IN  /\ faceCanvasW' = size[1]
                /\ faceCanvasH' = size[2]
                /\ overlay' = IF size # << faceCanvasW, faceCanvasH >> THEN << >> ELSE overlay
                /\ rafPending' = rafPending \ {h}
                /\ sendInFlight' = sendInFlight \cup {h}
                /\ UNCHANGED << faceFilterActive, faceAnimFrame, _s >>
       ELSE /\ SetFF(startFaceLoop([FF EXCEPT !.pending = @ \ {h}], faceDetector, sendInFlight))
            /\ UNCHANGED << faceCanvasW, faceCanvasH, sendInFlight >>
    /\ lastOp' = "other"
    /\ wiped' = FALSE
    /\ UNCHANGED << currentDecorationId, faceDetector, faceCanvas, initPc, lastResults >>
    /\ UNCHANGED << cameraVars, uiVars, logVars, envVars, filterVars, shotVars, pixelVars, twinVars, frameVars, countdownVars >>

\* send resolves: the detector has called onFaceResults(results) and the callback
\* goes on in the microtask of the resolution, before any other task runs
DetectorResolve(h, results) ==
    /\ h \in sendInFlight
    /\ LET st == onFaceResults([store |-> _s, overlay |-> overlay], results, faceCanvas,
                               currentDecorationId, currentFacingMode,
                               faceCanvasW, faceCanvasH)
       IN  /\ (faceCanvas /\ currentDecorationId # "none") =>
                  DepthAfter(_s, Len(results)) <= MaxExp
           /\ SetFF(startFaceLoop([FF EXCEPT !.store = st.store, !.overlay = st.overlay],
                                  faceDetector, sendInFlight \ {h}))
    /\ sendInFlight' = sendInFlight \ {h}
    /\ lastResults' = results
    /\ lastOp' = "onFaceResults"
    /\ wiped' = (results = << >> /\ (overlay # << >> \/ ~(\A k \in SmoothKeys : _s[k] = Null)))
    /\ UNCHANGED << currentDecorationId, faceDetector, faceCanvas, faceCanvasW, faceCanvasH,
                    initPc >>
    /\ UNCHANGED << cameraVars, uiVars, logVars, envVars, filterVars, shotVars, pixelVars, twinVars, frameVars, countdownVars >>

\* send throws or rejects: caught, the callback goes on
DetectorReject(h) ==
    /\ h \in sendInFlight
    /\ SetFF(startFaceLoop(FF, faceDetector, sendInFlight \ {h}))
    /\ sendInFlight' = sendInFlight \ {h}
    /\ lastOp' = "sendFailed"
    /\ wiped' = FALSE
    /\ UNCHANGED << currentDecorationId, faceDetector, faceCanvas, faceCanvasW, faceCanvasH,
                    initPc, lastResults >>
    /\ UNCHANGED << cameraVars, uiVars, logVars, envVars, filterVars, shotVars, pixelVars, twinVars, frameVars, countdownVars >>

(***************************************************************************)
(* Handlers of ui.js and the camera.                                       *)
(***************************************************************************)
\* retake-btn click
RetakeClick ==
    /\ page = "app" /\ screen = "result"
    /\ (faceFilterActive /\ faceDetector) => Cardinality(Alive) < MaxLoops
    /\ screen' = "camera"
    /\ IF faceFilterActive
       THEN SetFF(startFaceLoop([FF EXCEPT !.active = TRUE], faceDetector, sendInFlight))
       ELSE UNCHANGED << faceFilterActive, faceAnimFrame, rafPending, overlay, _s >>
    /\ lastOp' = "retake"
    /\ wiped' = FALSE
    /\ UNCHANGED << currentDecorationId, faceDetector, faceCanvas, faceCanvasW, faceCanvasH,
                    initPc, sendInFlight, lastResults >>
    /\ UNCHANGED << page, captureBtnDisabled, alertShown, crop >>
    /\ UNCHANGED << cameraVars, logVars, envVars, filterVars, shotVars, pixelVars, twinVars, frameVars, countdownVars >>

\* logout click, confirmed: stopCamera(), stopFaceLoop(), then the navigation starts;
\* until it commits the page still runs the callbacks it has outstanding
Logout ==
    /\ page = "app"
    /\ SetFF(stopFaceLoop(FF, faceCanvas))
    /\ page' = "leaving"
    /\ lastOp' = "logout"
    /\ wiped' = (overlay # << >> \/ ~(\A k \in SmoothKeys : _s[k] = Null))
    /\ UNCHANGED << currentDecorationId, faceDetector, faceCanvas, faceCanvasW, faceCanvasH,
                    initPc, sendInFlight, lastResults >>
    /\ UNCHANGED << screen, captureBtnDisabled, alertShown, crop >>
    /\ UNCHANGED << cameraVars, logVars, envVars, filterVars, shotVars, pixelVars, twinVars, frameVars, countdownVars >>

\* what captureImage reads
CaptureInput ==
    [vw |-> videoW, vh |-> videoH, facing |-> currentFacingMode, script |-> filterScript,
     filterId |-> currentFilterId, canvas |-> faceCanvas, decoration |-> currentDecorationId,
     frame |-> frameImage, cfg |-> messageConfig, fault |-> drawFault,
     crop |-> crop, out |-> out, result |-> resultCanvas]

\* capture-btn click: startCountdown up to its first wait.  The three one-second
\* waits that follow change the countdown text only
StartCountdown ==
    /\ page = "app" /\ screen = "camera"
    /\ ~captureBtnDisabled
    /\ captureBtnDisabled' = TRUE
    /\ lastOp' = "other"
    /\ wiped' = FALSE
    /\ UNCHANGED << screen, page, alertShown, crop, lastResults, _s >>
    /\ UNCHANGED << faceVars, cameraVars, logVars, envVars, filterVars, shotVars, pixelVars, twinVars, frameVars, countdownVars >>

\* a mutant of CaptureImage: the capture wipes the overlay surface it has drawn from
CaptureImageWipes ==
    /\ page = "app" /\ screen = "camera"
    /\ captureBtnDisabled
    /\ LET r == captureImage(CaptureInput)
       IN  /\ crop' = r.crop
           /\ out' = r.out
           /\ drawLog' = r.log
           /\ resultCanvas' = r.result
           /\ alertShown' = (r.stage # "done")
           /\ screen' = IF r.stage = "done" THEN "result" ELSE screen
    /\ captureBtnDisabled' = FALSE
    /\ lastOp' = "captureImage"
    /\ wiped' = FALSE
    /\ overlay' = << >>
    /\ UNCHANGED << currentDecorationId, faceDetector, faceCanvas, faceCanvasW, faceCanvasH,
                    faceAnimFrame, faceFilterActive, initPc, rafPending, sendInFlight >>
    /\ UNCHANGED << page, lastResults, _s >>
    /\ UNCHANGED << cameraVars, logVars, envVars, filterVars, pixelVars, twinVars, frameVars, countdownVars >>

\* the end of startCountdown: captureImage(); captureBtn.disabled = false
CaptureImage ==
    /\ page = "app" /\ screen = "camera"
    /\ captureBtnDisabled
    /\ LET r == captureImage(CaptureInput)
       IN  /\ crop' = r.crop
           /\ out' = r.out
           /\ drawLog' = r.log
           /\ resultCanvas' = r.result
           /\ alertShown' = (r.stage # "done")
           /\ screen' = IF r.stage = "done" THEN "result" ELSE screen
    /\ captureBtnDisabled' = FALSE
    /\ lastOp' = "captureImage"
    /\ wiped' = FALSE
    /\ UNCHANGED << page, lastResults, _s >>
    /\ UNCHANGED << faceVars, cameraVars, logVars, envVars, filterVars, pixelVars, twinVars, frameVars, countdownVars >>

\* initCamera: the stream plays
CameraReady ==
    /\ page = "app"
    /\ ~videoReady
    /\ videoReady' = TRUE
    /\ videoW' = 100 /\ videoH' = 100
    /\ screen' = "camera"
    /\ lastOp' = "other"
    /\ wiped' = FALSE
    /\ UNCHANGED << currentFacingMode, page, captureBtnDisabled, alertShown, crop, lastResults, _s >>
    /\ UNCHANGED << faceVars, logVars, envVars, filterVars, shotVars, pixelVars, twinVars, frameVars, countdownVars >>

Decorations == {"none", "crown", "glasses"}

Next ==
    \/ \E env \in {"no_canvas", "no_lib", "ok"} : InitFaceFilter(env)
    \/ \E ok \in BOOLEAN : InitFaceFilterSettled(ok)
    \/ \E d \in Decorations : SelectDecoration(d)
    \/ \E h \in Handles : AnimationFrame(h)
    \/ \E h \in Handles, r \in ResultSet : DetectorResolve(h, r)
    \/ \E h \in Handles : DetectorReject(h)
    \/ RetakeClick
    \/ Logout
    \/ StartCountdown
    \/ CaptureImage
    \/ CameraReady

Spec == Init /\ [][Next]_vars

(***************************************************************************)
(* The smoothing store on its own: any sequence of smoothVal and           *)
(* resetSmoothing calls on two of its keys.                                *)
(***************************************************************************)
ProbeKeys == {"bx", "by"}

SmoothValCall(key, v) ==
    /\ nCalls < MaxCalls
    /\ _s' = smoothVal(_s, key, Rat(v))
    /\ ret' = [ret EXCEPT ![key] = _s'[key]]
    /\ lastKey' = key
    /\ lastRaw' = Rat(v)
    /\ streak' = IF lastOp = "smoothVal" /\ lastKey = key /\ lastRaw = Rat(v)
                 THEN streak + 1 ELSE 0
    /\ used' = used \cup {key}
    /\ nCalls' = nCalls + 1
    /\ raws' = [raws EXCEPT ![key] = @ \cup {Rat(v)}]
    /\ lastOp' = "smoothVal"
    /\ wiped' = FALSE
    /\ UNCHANGED << faceVars, cameraVars, uiVars, lastResults >>
    /\ UNCHANGED << envVars, filterVars, shotVars, pixelVars, twinVars, frameVars, countdownVars >>

ResetSmoothingCall ==
    /\ _s' = resetSmoothing(_s)
    /\ ret' = [k \in SmoothKeys |-> Null]
    /\ used' = {}
    /\ nCalls' = 0
    /\ raws' = [k \in SmoothKeys |-> {}]
    /\ streak' = 0
    /\ lastOp' = "resetSmoothing"
    /\ wiped' = FALSE
    /\ UNCHANGED << lastKey, lastRaw >>
    /\ UNCHANGED << faceVars, cameraVars, uiVars, lastResults >>
    /\ UNCHANGED << envVars, filterVars, shotVars, pixelVars, twinVars, frameVars, countdownVars >>

NextSmooth ==
    \/ \E key \in ProbeKeys, v \in 0 .. MaxRaw : SmoothValCall(key, v)
    \/ ResetSmoothingCall

SpecSmooth == Init /\ [][NextSmooth]_vars

(***************************************************************************)
(* Capture on its own: any source size, capture and retake.                *)
(***************************************************************************)
\* sides of camera frames around the 1920 bound of the output
LargeSides == {1080, 1440, 1920, 1921, 2560, 2562, 3840, 4001}

InitCapture ==
    /\ InitFace /\ InitLog /\ InitUi /\ InitCompose
    /\ currentFacingMode \in {"user", "environment"}
    /\ videoW \in (0 .. MaxDim) \cup LargeSides
    /\ videoH \in (0 .. MaxDim) \cup LargeSides
    /\ videoReady = TRUE
    /\ screen = "camera"

NextCapture ==
    \/ StartCountdown
    \/ CaptureImage
    \/ RetakeClick

SpecCapture == InitCapture /\ [][NextCapture]_vars

(***************************************************************************)
(* The compositor: captures under any filter, frame asset state, failing   *)
(* step and camera, with a decoration drawn on the overlay or none.        *)
(***************************************************************************)
\* setFilter(filterId): currentFilterId, cameraVideo.style.filter and the canvas
\* steps made
setFilter(script, id) ==
    [id |-> id, preview |-> applyFilterToPreview(script, id), log |-> << >>]

\* click on a filter item
SetFilter(id) ==
    /\ page = "app" /\ screen = "camera"
    /\ LET r == setFilter(filterScript, id)
       IN  /\ currentFilterId' = r.id
           /\ previewFilter' = r.preview
           /\ drawLog' = r.log
    /\ lastOp' = "setFilter"
    /\ wiped' = FALSE
    /\ UNCHANGED << out, resultCanvas, lastResults, _s >>
    /\ UNCHANGED << faceVars, cameraVars, uiVars, logVars, envVars, pixelVars, twinVars, frameVars, countdownVars >>

\* camera frames of the compositor specification
SourceSizes == { << 1920, 1080 >>, << 1080, 1920 >>, << 640, 480 >>, << 2562, 1922 >> }

ProbeFilters == {"none", "cool", "film", "sketch"}

AllDisabled == [date |-> Field(FALSE, "2024-05-01"), text |-> Field(FALSE, "congratulations"),
                location |-> Field(FALSE, "Shinagawa")]
OnlyBadDate == [date |-> Field(TRUE, "2024-13-45"), text |-> Field(FALSE, "congratulations"),
                location |-> Field(TRUE, "")]

\* the face filter with nothing selected, or tracking with 'crown' selected when
\* the detector has delivered its first result, FaceC, and the next cycle is scheduled
InitFaceTracking(d, W, H, facing) ==
    IF d = "none" THEN InitFace
    ELSE LET st == onFaceResults([store |-> [k \in SmoothKeys |-> Null], overlay |-> << >>],
                                 << FaceC >>, TRUE, d, facing, W, H)
         IN  /\ currentDecorationId = d
             /\ faceDetector = TRUE
             /\ faceCanvas = TRUE
             /\ faceCanvasW = W
             /\ faceCanvasH = H
             /\ faceAnimFrame = 1
             /\ faceFilterActive = TRUE
             /\ _s = st.store
             /\ overlay = st.overlay
             /\ initPc = "done"
             /\ rafPending = {1}
             /\ sendInFlight = {}

InitComposeRun ==
    /\ \E size \in SourceSizes, d \in {"none", "crown"}, facing \in {"user", "environment"} :
          /\ videoW = size[1] /\ videoH = size[2]
          /\ currentFacingMode = facing
          /\ InitFaceTracking(d, size[1], size[2], facing)
          /\ lastResults = IF d = "none" THEN << >> ELSE << FaceC >>
    /\ videoReady = TRUE
    /\ screen = "camera"
    /\ InitUi
    /\ lastOp = "load" /\ lastKey = "bx" /\ lastRaw = Rat(0) /\ wiped = FALSE
    /\ ret = [k \in SmoothKeys |-> Null] /\ streak = 0 /\ used = {} /\ nCalls = 0
    /\ raws = [k \in SmoothKeys |-> {}]
    /\ filterScript \in {"first", "second"}
    /\ currentFilterId = "none"
    /\ previewFilter = ""
    /\ frameImage \in FrameStates
    /\ messageConfig \in {DefaultMessage, AllDisabled, OnlyBadDate}
    /\ drawFault \in Faults
    /\ InitShot
    /\ InitPixels

NextCompose ==
    \/ \E id \in ProbeFilters : SetFilter(id)
    \/ StartCountdown
    \/ CaptureImage
    \/ RetakeClick

SpecCompose == InitComposeRun /\ [][NextCompose]_vars

(***************************************************************************)
(* The caption: captures under every message configuration.                *)
(***************************************************************************)
MessageConfigs ==
    [date     : {Field(e, v) : e \in BOOLEAN, v \in DateValues},
     text     : {Field(e, v) : e \in BOOLEAN, v \in {"", "congratulations"}},
     location : {Field(e, v) : e \in BOOLEAN, v \in {"", "Shinagawa"}}]

\* message-apply click: applyMessageSettings with the editor holding cfg
ApplyMessageSettings(cfg) ==
    /\ page = "app" /\ screen = "camera"
    /\ messageConfig' = cfg
    /\ lastOp' = "other"
    /\ wiped' = FALSE
    /\ UNCHANGED << filterScript, frameImage, drawFault, lastResults, _s >>
    /\ UNCHANGED << faceVars, cameraVars, uiVars, logVars, filterVars, shotVars, pixelVars, twinVars, frameVars, countdownVars >>

InitCaption ==
    /\ InitFace /\ InitLog /\ InitUi /\ InitCompose
    /\ currentFacingMode = "environment"
    /\ videoW = 640 /\ videoH = 480
    /\ videoReady = TRUE
    /\ screen = "camera"

NextCaption ==
    \/ \E cfg \in MessageConfigs : ApplyMessageSettings(cfg)
    \/ StartCountdown
    \/ CaptureImage
    \/ RetakeClick

SpecCaption == InitCaption /\ [][NextCaption]_vars

(***************************************************************************)
(* The pixel passes of the second filter.js on small buffers.  Channels    *)
(* are 0..255; a pass maps the pixel map of the canvas to the one after it.*)
(***************************************************************************)
Coords(w, h) == (0 .. w - 1) \X (0 .. h - 1)

\* the outermost 1-pixel ring
Border(w, h) == {p \in Coords(w, h) : p[1] \in {0, w - 1} \/ p[2] \in {0, h - 1}}

\* a mutant of Clamp8: the value is stored as computed
Unclamped8(v) == v

\* a store into a Uint8ClampedArray, or Math.min(255, Math.max(0, v))
Clamp8(v) == IF v < 0 THEN 0 ELSE IF v > 255 THEN 255 ELSE v

RECURSIVE ISqrtIn(_, _, _)
ISqrtIn(n, lo, hi) ==
    IF lo >= hi THEN lo
    ELSE LET mid == (lo + hi + 1) \div 2
         IN  IF mid * mid <= n THEN ISqrtIn(n, mid, hi) ELSE ISqrtIn(n, lo, mid - 1)

\* floor(Math.sqrt(n)) for 0 <= n < 2^31
ISqrt(n) == ISqrtIn(n, 0, 46340)

\* a mutant of NoiseTriples: every channel draws its own noise
NoiseTriplesPerChannel(intensity, colorGrain) ==
    LET base == {0 - intensity, intensity - 1}
    IN  {<< k, 0 - k - 1, k >> : k \in base}

\* values of Math.random() are modelled by whole-number noise: base is
\* (Math.random() - 0.5) * intensity * 2, in [-intensity, intensity), and for
\* colour grain each channel adds (Math.random() - 0.5) * intensity * 0.6.
\* A field gives the noise of every pixel; the fields are the flat ones and the
\* ones that touch a single pixel.
NoiseTriples(intensity, colorGrain) ==
    LET base == {0 - intensity, intensity - 1}
        ex   == (3 * intensity - 1) \div 10
    IN  {<< k, k, k >> : k \in base}
        \cup (IF colorGrain THEN {<< k + ex, k, k - ex >> : k \in base} ELSE {})

GrainNoise(w, h, intensity, colorGrain) ==
    LET T == NoiseTriples(intensity, colorGrain)
    IN  {[p \in Coords(w, h) |-> << 0, 0, 0 >>]}
        \cup {[p \in Coords(w, h) |-> t] : t \in T}
        \cup {[p \in Coords(w, h) |-> IF p = q THEN t ELSE << 0, 0, 0 >>] :
                 q \in Coords(w, h), t \in T}

\* applyGrain(ctx, w, h, intensity, colorGrain) with the noise drawn as `noise`
applyGrain(px, w, h, noise) ==
    [p \in Coords(w, h) |->
        << Clamp8(px[p][1] + noise[p][1]), Clamp8(px[p][2] + noise[p][2]),
           Clamp8(px[p][3] + noise[p][3]), px[p][4] >>]

\* applyVignette(ctx, w, h, strength), strength in hundredths: black at alpha
\* t * strength over the whole canvas, t the position of the pixel centre between
\* inner = min(cx, cy) * 0.5 and outer = sqrt(cx^2 + cy^2) * 1.05 (lengths in 1/400 px)
applyVignette(px, w, h, strength) ==
    LET inner == 100 * (IF w < h THEN w ELSE h)
        outer == ISqrt(44100 * (w * w + h * h))
        s     == IF strength > 100 THEN 100 ELSE strength
        dist(p) == ISqrt(40000 * ((2 * p[1] + 1 - w) * (2 * p[1] + 1 - w)
                                  + (2 * p[2] + 1 - h) * (2 * p[2] + 1 - h)))
        t(p)  == IF dist(p) <= inner THEN 0
                 ELSE IF dist(p) >= outer THEN outer - inner
                 ELSE dist(p) - inner
        dim(c, p) == Round(c * ((outer - inner) * 100 - t(p) * s), (outer - inner) * 100)
    IN  [p \in Coords(w, h) |->
            << dim(px[p][1], p), dim(px[p][2], p), dim(px[p][3], p), px[p][4] >>]

\* the pixels of the canvas within r of p
Window(w, h, p, r) ==
    {q \in Coords(w, h) : q[1] >= p[1] - r /\ q[1] <= p[1] + r
                          /\ q[2] >= p[2] - r /\ q[2] <= p[2] + r}

RECURSIVE SumChannel(_, _, _)
SumChannel(px, S, c) ==
    IF S = {} THEN 0
    ELSE LET q == CHOOSE q \in S : TRUE
         IN  px[q][c] + SumChannel(px, S \ {q}, c)

\* ctx.filter = 'blur(r px)' on a drawImage of an opaque canvas, as the box
\* average over the (2r+1) x (2r+1) window with transparent black outside the
\* canvas: the colour is the mean of the pixels inside, the coverage cnt / win
Blur(px, w, h, p, r) ==
    LET S == Window(w, h, p, r)
        n == Cardinality(S)
    IN  [rgb |-> << Round(SumChannel(px, S, 1), n), Round(SumChannel(px, S, 2), n),
                    Round(SumChannel(px, S, 3), n) >>,
         cnt |-> n, win |-> (2 * r + 1) * (2 * r + 1)]

\* one drawImage(tmp, 0, 0) of applyGlow: blur(r) brightness(bright), screen
\* blend at globalAlpha alpha (hundredths) onto the opaque canvas
GlowLayer(px, tmp, w, h, r, bright, alpha) ==
    [p \in Coords(w, h) |->
        LET b == Blur(tmp, w, h, p, r)
            v == px[p]
            scr(c) == v[c] + Round(Clamp8((b.rgb[c] * bright) \div 100) * b.cnt * alpha
                                   * (255 - v[c]), b.win * 100 * 255)
        IN  << scr(1), scr(2), scr(3), v[4] >>]

\* applyGlow(ctx, w, h)
applyGlow(px, w, h) ==
    LET l1 == GlowLayer(px, px, w, h, 20, 170, 45)
        l2 == GlowLayer(l1, px, w, h, 9, 140, 32)
    IN  GlowLayer(l2, px, w, h, 3, 115, 18)

\* applyWatercolor(ctx, w, h): clearRect, the snapshot drawn back under
\* blur(5px), avg + (c - avg) * 1.9 on every pixel, then applyGrain(ctx, w, h, 7, false)
applyWatercolor(px, w, h, noise) ==
    LET sat(v, c) == Clamp8(Round(19 * v[c] - 3 * (v[1] + v[2] + v[3]), 10))
        vivid == [p \in Coords(w, h) |->
                     LET b == Blur(px, w, h, p, 5)
                         v == b.rgb
                     IN  << sat(v, 1), sat(v, 2), sat(v, 3), Round(255 * b.cnt, b.win) >>]
    IN  applyGrain(vivid, w, h, noise)

\* applySketch(ctx, w, h): Sobel on the channel sums of the copy (3 * gray), for
\* 1 <= x < w - 1 and 1 <= y < h - 1; val = max(0, 255 - min(255, |g| * 1.6) * 2.8)
applySketch(px, w, h) ==
    LET g(x, y) == px[<< x, y >>][1] + px[<< x, y >>][2] + px[<< x, y >>][3]
        gx(x, y) == 0 - g(x - 1, y - 1) - 2 * g(x - 1, y) - g(x - 1, y + 1)
                    + g(x + 1, y - 1) + 2 * g(x + 1, y) + g(x + 1, y + 1)
        gy(x, y) == 0 - g(x - 1, y - 1) - 2 * g(x, y - 1) - g(x + 1, y - 1)
                    + g(x - 1, y + 1) + 2 * g(x, y + 1) + g(x + 1, y + 1)
        mag(x, y) == ISqrt(100 * (gx(x, y) * gx(x, y) + gy(x, y) * gy(x, y)))
        val(x, y) == IF 16 * mag(x, y) >= 255 * 300 THEN 0
                     ELSE Clamp8(Round(255 * 3000 - 448 * mag(x, y), 3000))
    IN  [p \in Coords(w, h) |->
            IF p[1] >= 1 /\ p[1] < w - 1 /\ p[2] >= 1 /\ p[2] < h - 1
            THEN << val(p[1], p[2]), val(p[1], p[2]), val(p[1], p[2]), px[p][4] >>
            ELSE px[p]]

\* opaque canvases a capture can hand to a pass
Palette == { << 0, 0, 0, 255 >>, << 255, 255, 255, 255 >>, << 120, 60, 200, 255 >>,
             << 200, 100, 50, 255 >> }

TestImages(w, h) ==
    {[p \in Coords(w, h) |-> c] : c \in Palette}
    \cup {[p \in Coords(w, h) |-> IF (p[1] + p[2]) % 2 = 0 THEN << 0, 0, 0, 255 >>
                                   ELSE << 255, 255, 255, 255 >>],
          [p \in Coords(w, h) |-> IF (p[1] + p[2]) % 2 = 0 THEN << 120, 60, 200, 255 >>
                                   ELSE << 200, 100, 50, 255 >>],
          [p \in Coords(w, h) |-> << 60 * p[1], 60 * p[2], 128, 255 >>]}

\* the pass at the head of the list, when it is a call of fn
NextPass(fn) == img.todo # << >> /\ Head(img.todo).fn = fn

Passed(fn, px) ==
    /\ img' = [img EXCEPT !.px = px, !.todo = Tail(img.todo)]
    /\ imgPrev' = img
    /\ lastOp' = fn
    /\ UNCHANGED << lastResults, wiped, _s >>
    /\ UNCHANGED << faceVars, cameraVars, uiVars, logVars, envVars, filterVars, shotVars,
                    twinVars, frameVars, countdownVars >>

ApplyGrain ==
    /\ NextPass("applyGrain")
    /\ \E noise \in GrainNoise(img.w, img.h, Head(img.todo).a, Head(img.todo).color) :
          Passed("applyGrain", applyGrain(img.px, img.w, img.h, noise))

ApplyVignette ==
    /\ NextPass("applyVignette")
    /\ Passed("applyVignette", applyVignette(img.px, img.w, img.h, Head(img.todo).a))

ApplyGlow ==
    /\ NextPass("applyGlow")
    /\ Passed("applyGlow", applyGlow(img.px, img.w, img.h))

ApplyWatercolor ==
    /\ NextPass("applyWatercolor")
    /\ \E noise \in GrainNoise(img.w, img.h, 7, FALSE) :
          Passed("applyWatercolor", applyWatercolor(img.px, img.w, img.h, noise))

ApplySketch ==
    /\ NextPass("applySketch")
    /\ Passed("applySketch", applySketch(img.px, img.w, img.h))

\* f.apply(ctx, w, h) of a filter of the second filter.js is about to run on a canvas
InitPixelRun ==
    /\ InitFace /\ InitLog /\ InitUi /\ InitShot
    /\ currentFacingMode = "environment"
    /\ videoW = 640 /\ videoH = 480
    /\ videoReady = TRUE
    /\ screen = "camera"
    /\ filterScript = "second"
    /\ currentFilterId \in {id \in FilterIds : getCurrentFilter("second", id).apply # << >>}
    /\ previewFilter = applyFilterToPreview("second", currentFilterId)
    /\ frameImage = "null"
    /\ messageConfig = DefaultMessage
    /\ drawFault = "none"
    /\ \E w \in 3 .. MaxSide, h \in 3 .. MaxSide :
          \E px \in TestImages(w, h) :
             img = [w |-> w, h |-> h, px |-> px,
                    todo |-> getCurrentFilter("second", currentFilterId).apply]
    /\ imgPrev = NoImg
    /\ twin = NoTwin
    /\ frames = NoFrames
    /\ countdowns = NoCountdowns

NextPixels ==
    \/ ApplyGrain
    \/ ApplyVignette
    \/ ApplyGlow
    \/ ApplyWatercolor
    \/ ApplySketch

SpecPixels == InitPixelRun /\ [][NextPixels]_vars

\* the pass calls the filters of the second filter.js make
PixelPasses ==
    UNION {{FILTERS_second[i].apply[k] : k \in DOMAIN FILTERS_second[i].apply} :
              i \in DOMAIN FILTERS_second}

\* an all-black or all-white canvas is about to get the same pass twice
InitPixelTwice ==
    /\ InitFace /\ InitLog /\ InitUi /\ InitShot
    /\ currentFacingMode = "environment"
    /\ videoW = 640 /\ videoH = 480
    /\ videoReady = TRUE
    /\ screen = "camera"
    /\ filterScript = "second"
    /\ currentFilterId = "none"
    /\ previewFilter = ""
    /\ frameImage = "null"
    /\ messageConfig = DefaultMessage
    /\ drawFault = "none"
    /\ \E w \in 3 .. MaxSide, h \in 3 .. MaxSide, c \in {0, 255}, pass \in PixelPasses :
          img = [w |-> w, h |-> h, px |-> [p \in Coords(w, h) |-> << c, c, c, 255 >>],
                 todo |-> << pass, pass >>]
    /\ imgPrev = NoImg
    /\ twin = NoTwin
    /\ frames = NoFrames
    /\ countdowns = NoCountdowns

SpecTwice == InitPixelTwice /\ [][NextPixels]_vars

(***************************************************************************)
(* The mirror of the user-facing camera: the page under the user-facing    *)
(* camera and, beside it, the page under the environment camera fed the    *)
(* horizontally mirrored detections.                                       *)
(***************************************************************************)
\* faceCtx.translate(W, 0); faceCtx.scale(-1, 1): decoration x to canvas x
Mirror(x, W) == RatSub(Rat(W), x)

\* a detection of the horizontally mirrored picture
MirrorDet(det) ==
    [boundingBox |-> [det.boundingBox EXCEPT !.xCenter = 100 - det.boundingBox.xCenter],
     landmarks   |-> [i \in DOMAIN det.landmarks |->
                         Pt(100 - det.landmarks[i].x, det.landmarks[i].y)]]

MirrorResults(results) == [i \in DOMAIN results |-> MirrorDet(results[i])]

\* a face with its six landmarks around the box centre
FaceAt(x, w) ==
    [boundingBox |-> [xCenter |-> x, yCenter |-> 40, width |-> w, height |-> 30],
     landmarks   |-> << Pt(x - 6, 36), Pt(x + 6, 36), Pt(x, 42), Pt(x, 48),
                        Pt(x - 13, 38), Pt(x + 13, 38) >>]

MirrorResultSet ==
    {<< >>, << FaceB >>} \cup {<< FaceAt(x, w) >> : x \in {30, 50, 70}, w \in {20, 24, 30}}

\* drawDecoration: the x coordinates the decoration is drawn at, before the
\* transform of the context.  'crown': the two sides of the band rect(cx, ..., cw, ...)
\* and the jewel arc(bx, ...); 'santa': the two ends of the hat base
\* moveTo(hx, ...) / lineTo(hx + hw, ...) and the pom-pom arc(bx + hw * 0.3, ...)
DecorationXs(f) ==
    LET bx == f.c["bx"]
        bw == f.c["bw"]
    IN  IF f.id = "crown"
        THEN LET cw == Frac(44, bw)
                 cx == RatSub(bx, Frac(25, cw))
             IN  [left |-> cx, right |-> RatAdd(cx, cw), mark |-> bx]
        ELSE LET hw == Frac(36, bw)
                 hx == RatSub(bx, Frac(25, hw))
             IN  [left |-> hx, right |-> RatAdd(hx, hw), mark |-> RatAdd(bx, Frac(15, hw))]

\* where the frame ends up on the overlay canvas: the extent of the decoration
\* and the x of its mark (jewel, pom-pom)
Placement(f) ==
    LET d == DecorationXs(f)
    IN  IF f.flipped
        THEN [ends |-> {Mirror(d.left, f.W), Mirror(d.right, f.W)}, mark |-> Mirror(d.mark, f.W)]
        ELSE [ends |-> {d.left, d.right}, mark |-> d.mark]

\* the detector delivers results for a user-facing frame; the twin gets the
\* results of the mirrored frame
FeedPair(results) ==
    /\ results # << >> => DepthAfter(_s, Len(results)) <= MirrorDepth
    /\ LET st == onFaceResults([store |-> _s, overlay |-> overlay], results, faceCanvas,
                               currentDecorationId, currentFacingMode,
                               faceCanvasW, faceCanvasH)
           tw == onFaceResults(twin, MirrorResults(results), faceCanvas,
                               currentDecorationId, "environment", faceCanvasW, faceCanvasH)
       IN  /\ _s' = st.store
           /\ overlay' = st.overlay
           /\ twin' = tw
    /\ lastResults' = results
    /\ lastOp' = "onFaceResults"
    /\ wiped' = (results = << >> /\ (overlay # << >> \/ ~(\A k \in SmoothKeys : _s[k] = Null)))
    /\ UNCHANGED << currentDecorationId, faceDetector, faceCanvas, faceCanvasW, faceCanvasH,
                    faceAnimFrame, faceFilterActive, initPc, rafPending, sendInFlight >>
    /\ UNCHANGED << cameraVars, uiVars, logVars, envVars, filterVars, shotVars, pixelVars, frameVars, countdownVars >>

InitMirror ==
    /\ currentDecorationId \in {"crown", "santa"}
    /\ faceDetector = TRUE
    /\ faceCanvas = TRUE
    /\ faceCanvasW = 100
    /\ faceCanvasH = 100
    /\ faceAnimFrame = 1
    /\ faceFilterActive = TRUE
    /\ _s = [k \in SmoothKeys |-> Null]
    /\ overlay = << >>
    /\ initPc = "done"
    /\ rafPending = {}
    /\ sendInFlight = {1}
    /\ InitLog /\ InitUi /\ InitCompose
    /\ currentFacingMode = "user"
    /\ videoW = 100 /\ videoH = 100
    /\ videoReady = TRUE
    /\ screen = "camera"

NextMirror == \E results \in MirrorResultSet : FeedPair(results)

SpecMirror == InitMirror /\ [][NextMirror]_vars

(***************************************************************************)
(* Where a point of the video frame lands on the output, as a fraction of  *)
(* the output width and height.  pt is in hundredths of the frame sides.   *)
(***************************************************************************)
RECURSIVE GCD(_, _)
GCD(a, b) == IF b = 0 THEN a ELSE GCD(b, a % b)

\* num / den in lowest terms, den > 0
Fr(num, den) ==
    LET g == GCD(IF num < 0 THEN 0 - num ELSE num, den)
    IN  [num |-> num \div g, den |-> den \div g]
SameFr(a, b) == a = b

\* layer 1: drawImage(cameraVideo, srcX, srcY, srcW, srcH, 0, 0, outW, outH), under
\* translate(outW, 0) scale(-1, 1) for the user-facing camera
CameraPos(pt, vw, vh, c, facing) ==
    LET x == pt.x * vw - 100 * c.srcX
        y == pt.y * vh - 100 * c.srcY
    IN  [x |-> Fr(IF facing = "user" THEN 100 * c.srcW - x ELSE x, 100 * c.srcW),
         y |-> Fr(y, 100 * c.srcH)]

\* layer 2: the decoration is drawn at pt.x * W (W - pt.x * W when flipped) on the
\* W x H overlay, and drawImage(faceCanvas, 0, 0, outW, outH) stretches the overlay
\* over the output
OverlayPos(pt, W, H, facing) ==
    [x |-> Fr(IF facing = "user" THEN 100 * W - pt.x * W ELSE pt.x * W, 100 * W),
     y |-> Fr(pt.y * H, 100 * H)]

(***************************************************************************)
(* Frame selection: selectFrame starts a load, the browser completes or    *)
(* fails the pending loads in any order.                                   *)
(***************************************************************************)
FrameIds == {"own1", "own2", "common1"}

\* loadFrameImage(path): [image, held, load]; load is the Image it starts
loadFrameImage(id, n) ==
    [image |-> "null", held |-> "", load |-> [h |-> n, id |-> id]]

\* click on a frame item: selectFrame(frameId)
SelectFrame(id) ==
    /\ page = "app" /\ screen = "camera"
    /\ frames.started < MaxSelects
    /\ LET r == loadFrameImage(id, frames.started + 1)
       IN  /\ frameImage' = r.image
           /\ frames' = [current |-> id, held |-> r.held,
                         pending |-> frames.pending \cup {r.load},
                         started |-> frames.started + 1]
    /\ lastOp' = "selectFrame"
    /\ wiped' = FALSE
    /\ UNCHANGED << filterScript, messageConfig, drawFault, lastResults, _s >>
    /\ UNCHANGED << faceVars, cameraVars, uiVars, logVars, filterVars, shotVars, pixelVars,
                    twinVars, countdownVars >>

\* img.onload = () => { frameImage = img; }
ImageLoaded(l) ==
    /\ l \in frames.pending
    /\ frameImage' = "loaded"
    /\ frames' = [frames EXCEPT !.held = l.id, !.pending = frames.pending \ {l}]
    /\ lastOp' = "frameLoaded"
    /\ wiped' = FALSE
    /\ UNCHANGED << filterScript, messageConfig, drawFault, lastResults, _s >>
    /\ UNCHANGED << faceVars, cameraVars, uiVars, logVars, filterVars, shotVars, pixelVars,
                    twinVars, countdownVars >>

\* img.onerror = () => { frameImage = null; }
ImageFailed(l) ==
    /\ l \in frames.pending
    /\ frameImage' = "null"
    /\ frames' = [frames EXCEPT !.held = "", !.pending = frames.pending \ {l}]
    /\ lastOp' = "frameFailed"
    /\ wiped' = FALSE
    /\ UNCHANGED << filterScript, messageConfig, drawFault, lastResults, _s >>
    /\ UNCHANGED << faceVars, cameraVars, uiVars, logVars, filterVars, shotVars, pixelVars,
                    twinVars, countdownVars >>

NextFrames ==
    \/ \E id \in FrameIds : SelectFrame(id)
    \/ \E h \in 1 .. MaxSelects, id \in FrameIds : ImageLoaded([h |-> h, id |-> id])
    \/ \E h \in 1 .. MaxSelects, id \in FrameIds : ImageFailed([h |-> h, id |-> id])

SpecFrames == InitCaption /\ [][NextFrames]_vars

(***************************************************************************)
(* The drawing state of the work canvas context through the camera layer   *)
(* and the pixel passes: filter, globalCompositeOperation, globalAlpha     *)
(* (hundredths) and the stack of save().                                   *)
(***************************************************************************)
Op(op, prop, val) == [op |-> op, prop |-> prop, val |-> val]
SetFilterOp(v) == Op("set", "filter", v)
DrawOp == Op("draw", "", "")

Ctx0 == [filter |-> "none", gco |-> "source-over", alpha |-> "1", stack |-> << >>]

RECURSIVE RunCtx(_, _)
RunCtx(st, ops) ==
    IF ops = << >> THEN st
    ELSE LET o  == Head(ops)
             s2 == IF o.op = "save"
                   THEN [st EXCEPT !.stack = << [filter |-> st.filter, gco |-> st.gco,
                                                alpha |-> st.alpha] >> \o st.stack]
                   ELSE IF o.op = "restore"
                   THEN IF st.stack = << >> THEN st
                        ELSE [filter |-> Head(st.stack).filter, gco |-> Head(st.stack).gco,
                              alpha |-> Head(st.stack).alpha, stack |-> Tail(st.stack)]
                   ELSE IF o.op = "set"
                   THEN IF o.prop = "filter" THEN [st EXCEPT !.filter = o.val]
                        ELSE IF o.prop = "gco" THEN [st EXCEPT !.gco = o.val]
                        ELSE IF o.prop = "alpha" THEN [st EXCEPT !.alpha = o.val]
                        ELSE st
                   ELSE st
         IN  RunCtx(s2, Tail(ops))

\* layer 1 of captureImage
CameraOps(filterStr, facing) ==
    << SetFilterOp(filterStr) >>
    \o (IF facing = "user"
        THEN << Op("save", "", ""), DrawOp, Op("restore", "", "") >>
        ELSE << DrawOp >>)
    \o << SetFilterOp("none") >>

\* a mutant of PassOps: applyWatercolor leaves its blur on the context
PassOpsBlurLeft(script, pass) ==
    IF pass.fn = "applyWatercolor" /\ script = "second"
    THEN << DrawOp, SetFilterOp("blur(5px)"), DrawOp, DrawOp, DrawOp >>
    ELSE << DrawOp >>

\* what a pass of either filter.js does to the context
PassOps(script, pass) ==
    IF pass.fn = "applyVignette"
    THEN << Op("save", "", ""), Op("set", "fillStyle", "grad"), DrawOp, Op("restore", "", "") >>
    ELSE IF pass.fn = "applyGlow" /\ script = "second"
    THEN << Op("save", "", ""), Op("set", "gco", "screen"),
            SetFilterOp("blur(20px) brightness(1.7)"), Op("set", "alpha", "0.45"), DrawOp,
            SetFilterOp("blur(9px) brightness(1.4)"), Op("set", "alpha", "0.32"), DrawOp,
            SetFilterOp("blur(3px) brightness(1.15)"), Op("set", "alpha", "0.18"), DrawOp,
            Op("restore", "", "") >>
    ELSE IF pass.fn = "applyGlow"
    THEN << Op("save", "", ""), SetFilterOp("blur(6px) brightness(1.3)"),
            Op("set", "gco", "screen"), Op("set", "alpha", "0.35"), DrawOp,
            Op("restore", "", "") >>
    ELSE IF pass.fn = "applyWatercolor" /\ script = "second"
    THEN << DrawOp, SetFilterOp("blur(5px)"), DrawOp, SetFilterOp("none"), DrawOp, DrawOp >>
    ELSE << DrawOp >>

RECURSIVE AllPassOps(_, _)
AllPassOps(script, passes) ==
    IF passes = << >> THEN << >>
    ELSE PassOps(script, Head(passes)) \o AllPassOps(script, Tail(passes))

\* the context when layer 2 is reached, for a filter whose passes have run
CtxBeforeOverlay(script, id, facing) ==
    RunCtx(Ctx0, CameraOps(getCanvasFilterString(script, id), facing)
                 \o AllPassOps(script, getCurrentFilter(script, id).apply))

(***************************************************************************)
(* Properties.                                                             *)
(***************************************************************************)
AllNull(store) == \A k \in DOMAIN store : store[k] = Null

\* C1: in every reachable state at most one faceDetector.send call is in flight,
\* and at most one detection loop is scheduled or running.
C1_OneInFlight == Cardinality(sendInFlight) <= 1

\* C2: once tracking is stopped (faceFilterActive is false until a decoration
\* other than 'none' is selected again) the overlay surface is empty, whatever
\* callbacks and detector results arrive late.
C2_EmptyAfterStop == ~faceFilterActive => overlay = << >>

\* C3: the resolver is Tracking or Idle: while faceFilterActive is true a
\* detection loop is running, and while it is false no animation callback is
\* pending (so no further detector call will be issued).
C3_TwoStates ==
    /\ faceFilterActive => Alive # {}
    /\ ~faceFilterActive => rafPending = {}

\* C4: a result without detections leaves the overlay empty and every smoothing
\* key uninitialized, and the first face drawn on an uninitialized store gets its
\* raw coordinates.
C4_ZeroDetections ==
    /\ [](lastOp = "onFaceResults" /\ lastResults = << >>
            => overlay = << >> /\ AllNull(_s))
    /\ [][(AllNull(_s) /\ lastOp' = "onFaceResults" /\ overlay' # << >>)
            => overlay'[1].c = RawCoords(lastResults'[1], faceCanvasW', faceCanvasH')]_vars

C4_Witness ==
    /\ lastOp = "onFaceResults" /\ lastResults = << >> /\ wiped
    /\ currentDecorationId # "none" /\ faceFilterActive

\* C5: stopFaceLoop twice gives the state stopFaceLoop once gives, and that state
\* has faceFilterActive false, faceAnimFrame null, an empty overlay and every
\* smoothing key uninitialized; the states a stop leaves are of that kind.
C5_StopIdempotent ==
    LET s1 == stopFaceLoop(FF, faceCanvas)
        s2 == stopFaceLoop(s1, faceCanvas)
    IN  /\ s2 = s1
        /\ ~s1.active /\ s1.anim = 0 /\ s1.overlay = << >> /\ AllNull(s1.store)
        /\ lastOp \in {"selectNone", "logout"} => FF = s1

C5_Witness ==
    /\ lastOp = "selectNone" /\ wiped
    /\ sendInFlight # {}

C7_SmoothVal ==
    [][lastOp' = "smoothVal"
        => LET k == lastKey'
               v == lastRaw'
           IN  /\ k \notin used => ret'[k] = v
               /\ k \in used =>
                    RatMul(50, ret'[k]) = RatAdd(RatMul(31, ret[k]), RatMul(19, v))
               /\ _s'[k] = ret'[k]
               /\ \A j \in SmoothKeys \ {k} : _s'[j] = _s[j]]_vars

C7_Witness ==
    /\ lastOp = "smoothVal" /\ nCalls >= 3
    /\ used = ProbeKeys
    /\ ret[lastKey] # lastRaw /\ ret[lastKey].e >= 1

C9_IndependentPasses ==
    [][(lastOp' = "onFaceResults" /\ overlay' # << >>)
        => \A i \in 1 .. Len(overlay') :
              overlay'[i].c = SmoothPass(_s, RawCoords(lastResults'[i], faceCanvasW', faceCanvasH'))]_vars

\* C10: the crop rectangle lies inside the frame, spans the full side the
\* 4:3 ratio leaves uncropped, is centred to within one pixel and has the ratio
\* 4:3 to within the rounding of its computed side.
C10_CoverCrop ==
    (lastOp = "captureImage" /\ screen = "result") =>
        LET marginX == videoW - crop.srcX - crop.srcW
            marginY == videoH - crop.srcY - crop.srcH
        IN  /\ crop.srcX >= 0 /\ crop.srcY >= 0 /\ marginX >= 0 /\ marginY >= 0
            /\ crop.srcW >= 1 /\ crop.srcH >= 1
            /\ IF 3 * videoW > 4 * videoH
               THEN crop.srcH = videoH /\ crop.srcY = 0
               ELSE crop.srcW = videoW /\ crop.srcX = 0
            /\ crop.srcX - marginX \in {-1, 0, 1}
            /\ crop.srcY - marginY \in {-1, 0, 1}
            /\ 3 * crop.srcW - 4 * crop.srcH \in -2 .. 2

C10_Witness ==
    /\ lastOp = "captureImage" /\ screen = "result"
    /\ crop.srcX > 0 /\ crop.srcX # videoW - crop.srcX - crop.srcW
    /\ 3 * crop.srcW # 4 * crop.srcH

\* C11: the output size of a capture is at least 1 x 1, at most the crop size and
\* at most 1920 on either side (a crop is only ever scaled down), it is the crop
\* size when both crop sides are at most 1920, it keeps the ratio of the crop to
\* within the rounding of the scaled side, and it is the size of the result.
C11_OutputSize ==
    (lastOp = "captureImage" /\ screen = "result") =>
        LET longer == IF crop.srcW >= crop.srcH THEN crop.srcW ELSE crop.srcH
            skew   == out.outW * crop.srcH - out.outH * crop.srcW
        IN  /\ 1 <= out.outW /\ out.outW <= crop.srcW /\ out.outW <= MAX_OUT
            /\ 1 <= out.outH /\ out.outH <= crop.srcH /\ out.outH <= MAX_OUT
            /\ (crop.srcW <= MAX_OUT /\ crop.srcH <= MAX_OUT)
                 => out.outW = crop.srcW /\ out.outH = crop.srcH
            /\ (crop.srcW > MAX_OUT \/ crop.srcH > MAX_OUT)
                 => out.outW = MAX_OUT \/ out.outH = MAX_OUT
            /\ 2 * skew <= longer /\ -2 * skew <= longer
            /\ resultCanvas.width = out.outW /\ resultCanvas.height = out.outH

C11_Witness ==
    /\ lastOp = "captureImage" /\ screen = "result"
    /\ crop.srcW > MAX_OUT /\ out.outW = MAX_OUT
    /\ out.outH < crop.srcH
    /\ out.outW * crop.srcH # out.outH * crop.srcW

Rank(layer) ==
    CASE layer = "camera"  -> 1
      [] layer = "pixel"   -> 2
      [] layer = "overlay" -> 3
      [] layer = "frame"   -> 4
      [] layer = "caption" -> 5

\* C13: the steps of a capture that shows its result come in the order camera
\* frame, pixel pass, decoration overlay, frame asset, caption, each at most once
\* and the camera frame first: the camera frame is mirrored iff the camera is
\* user-facing and drawn through the filter string the preview shows, a pixel pass
\* is the one of the active filter, overlay and frame asset are scaled to the
\* output size, the frame asset is drawn only if fully loaded, and the result holds
\* exactly these steps.
C13_LayerOrder ==
    (lastOp = "captureImage" /\ screen = "result") =>
        LET f == getCurrentFilter(filterScript, currentFilterId)
        IN  /\ Len(drawLog) >= 1 /\ drawLog[1].layer = "camera"
            /\ \A i, j \in DOMAIN drawLog :
                  i < j => Rank(drawLog[i].layer) < Rank(drawLog[j].layer)
            /\ drawLog[1].mirrored = (currentFacingMode = "user")
            /\ drawLog[1].filter = f.cssFilter
            /\ previewFilter = (IF f.cssFilter = "none" THEN "" ELSE drawLog[1].filter)
            /\ \A k \in DOMAIN drawLog :
                  /\ drawLog[k].layer = "pixel"
                       => drawLog[k].passes = f.apply /\ f.apply # << >>
                  /\ drawLog[k].layer = "frame" => frameImage = "loaded"
                  /\ drawLog[k].layer = "overlay" => currentDecorationId # "none"
                  /\ drawLog[k].dw = out.outW /\ drawLog[k].dh = out.outH
            /\ resultCanvas.layers = drawLog

C13_Witness ==
    /\ lastOp = "captureImage" /\ screen = "result"
    /\ Len(drawLog) = 5
    /\ \A k \in DOMAIN drawLog : ~drawLog[k].threw
    /\ currentFacingMode = "environment"

\* C14: a capture in which a drawing step throws is aborted: an alert is raised,
\* the result canvas is left as it was and the screen does not change.
C14_AbortOnFailure ==
    [][(lastOp' = "captureImage" /\ \E k \in DOMAIN drawLog' : drawLog'[k].threw)
        => /\ alertShown'
           /\ resultCanvas' = resultCanvas
           /\ screen' = screen]_vars

\* C15: a capture of a source frame without width or without height raises an
\* alert, makes no step on any canvas, leaves the result canvas, the screen, crop
\* and output size as they were and leaves the capture button enabled.
C15_FailFast ==
    [][(lastOp' = "captureImage" /\ (videoW = 0 \/ videoH = 0))
        => /\ alertShown'
           /\ drawLog' = << >>
           /\ resultCanvas' = resultCanvas
           /\ screen' = screen /\ screen' = "camera"
           /\ crop' = crop /\ out' = out
           /\ captureBtnDisabled /\ ~captureBtnDisabled']_vars

C15_Witness ==
    /\ lastOp = "captureImage" /\ alertShown
    /\ videoW > 0 /\ videoH = 0
    /\ ~captureBtnDisabled /\ screen = "camera" /\ drawLog = << >>

WithoutLayer(log, layer) == SelectSeq(log, LAMBDA e : e.layer # layer)

\* C16: a frame asset that is absent, incomplete or broken only takes the frame
\* step out of the capture: the capture ends as it would with a loaded asset and
\* makes the same steps but that one, and when no step throws it shows the result
\* without an alert.
C16_FrameSkipped ==
    (lastOp = "captureImage" /\ frameImage # "loaded" /\ drawFault # "frame") =>
        LET r == captureImage([CaptureInput EXCEPT !.frame = "loaded"])
        IN  /\ drawLog = WithoutLayer(r.log, "frame")
            /\ \A k \in DOMAIN drawLog : drawLog[k].layer # "frame"
            /\ (screen = "result") = (r.stage = "done")
            /\ alertShown = (r.stage # "done")
            /\ drawFault = "none" => screen = "result" /\ ~alertShown

C16_Witness ==
    /\ lastOp = "captureImage" /\ frameImage = "broken" /\ drawFault = "none"
    /\ screen = "result" /\ Len(drawLog) >= 3
    /\ Len(captureImage([CaptureInput EXCEPT !.frame = "loaded"]).log) = Len(drawLog) + 1

\* C17: a caption is drawn only if date, text or location is enabled with a
\* non-empty value; otherwise drawMessageOnCanvas makes no call on the context
\* (so no drawing call, and the context state stays as it was) and the capture
\* makes exactly the steps it makes without the caption step.
C17_CaptionOmitted ==
    LET cfg   == messageConfig
        calls == drawMessageOnCanvas(cfg)
        any   == Has(cfg.date) \/ Has(cfg.text) \/ Has(cfg.location)
        o     == OutSize(CropRect(videoW, videoH).srcW, CropRect(videoW, videoH).srcH)
    IN  /\ ~any => calls = << >> /\ CtxAfter(CtxClean, calls) = CtxClean
        /\ Draws(calls) # {} => any
        /\ Draws(calls) = {} => CtxAfter(CtxClean, calls) = CtxClean
        /\ (lastOp = "captureImage" /\ screen = "result")
             => /\ (\E k \in DOMAIN drawLog : drawLog[k].layer = "caption") => any
                /\ ~any => drawLog = CameraStep(CaptureInput, o) \o PixelStep(CaptureInput, o)
                                     \o OverlayStep(CaptureInput, o) \o FrameStep(CaptureInput, o)

C17_Witness ==
    /\ lastOp = "captureImage" /\ screen = "result"
    /\ ~messageConfig.date.enabled /\ ~messageConfig.text.enabled
    /\ ~messageConfig.location.enabled
    /\ messageConfig.text.value # "" /\ messageConfig.date.value # ""
    /\ drawLog # << >>

\* C18: an enabled date that is not a valid date gives no caption line and no
\* error: the caption of the capture is the enabled non-empty text and location,
\* in this order, and without either of them no panel and no text are drawn.
C18_InvalidDate ==
    LET cfg   == messageConfig
        calls == drawMessageOnCanvas(cfg)
        rest  == (IF Has(cfg.text) THEN << Line("text", cfg.text.value, 0, 0, 0) >> ELSE << >>)
                 \o (IF Has(cfg.location)
                     THEN << Line("location", cfg.location.value, 0, 0, 0) >> ELSE << >>)
    IN  (Has(cfg.date) /\ IsNaNDate(ParseDate(cfg.date.value))) =>
            /\ CaptionLines(cfg) = rest
            /\ rest = << >> => Draws(calls) = {} /\ CtxAfter(CtxClean, calls) = CtxClean
            /\ Cardinality({k \in DOMAIN calls : calls[k].op = "fillText"}) = 2 * Len(rest)
            /\ lastOp = "captureImage"
                 => /\ screen = "result" /\ ~alertShown
                    /\ rest # << >> => drawLog[Len(drawLog)].layer = "caption"
                                       /\ drawLog[Len(drawLog)].lines = rest
                    /\ rest = << >> => \A k \in DOMAIN drawLog : drawLog[k].layer # "caption"

C18_Witness ==
    /\ lastOp = "captureImage" /\ screen = "result"
    /\ Has(messageConfig.date) /\ IsNaNDate(ParseDate(messageConfig.date.value))
    /\ Has(messageConfig.text) /\ Has(messageConfig.location)
    /\ Len(drawLog[Len(drawLog)].lines) = 2

PixelSteps(log) == SelectSeq(log, LAMBDA e : e.layer = "pixel")

\* C19: a successful capture invokes the pixel pass of the current filter exactly
\* once, right after the camera step and before the overlay, frame and caption
\* steps, and not at all for a filter without one; selecting a filter invokes none.
C19_PassOncePerCapture ==
    LET f == getCurrentFilter(filterScript, currentFilterId)
        n == Len(PixelSteps(drawLog))
    IN  /\ lastOp = "setFilter" => n = 0
        /\ (lastOp = "captureImage" /\ screen = "result") =>
              /\ f.apply = << >> => n = 0
              /\ f.apply # << >> => /\ n = 1
                                    /\ drawLog[1].layer = "camera"
                                    /\ drawLog[2].layer = "pixel"
                                    /\ drawLog[2].passes = f.apply

\* C20: a pixel pass leaves the outermost 1-pixel ring of the buffer as it was:
\* every pixel with x in {0, w-1} or y in {0, h-1} has the channel values it had
\* before the pass.
C20_BorderUnchanged ==
    imgPrev # NoImg =>
        \A p \in Border(img.w, img.h) : img.px[p] = imgPrev.px[p]

\* C21: a pixel pass applied once or twice to an all-black or all-white canvas
\* leaves every channel of every pixel in 0..255, and no channel wraps around:
\* grain moves a channel by no more than its noise.
C21_InRange ==
    imgPrev # NoImg =>
        /\ \A p \in Coords(img.w, img.h) : \A c \in 1 .. 4 : img.px[p][c] \in 0 .. 255
        /\ lastOp = "applyGrain" =>
              \A p \in Coords(img.w, img.h) : \A c \in 1 .. 3 :
                 LET a == Head(imgPrev.todo).a
                     d == img.px[p][c] - imgPrev.px[p][c]
                 IN  10 * d <= 13 * a /\ 10 * d >= 0 - 13 * a

C21_Witness ==
    /\ lastOp = "applyGrain" /\ img.todo = << >> /\ Len(imgPrev.todo) = 1
    /\ \E p, q \in Coords(img.w, img.h) : img.px[p][1] = 255 /\ img.px[q][1] < 200

\* C22: the decoration drawn for a user-facing frame is placed where the
\* decoration of the mirrored frame is placed under the environment camera:
\* same extent, same position of its mark.
C22_MirrorPlacement ==
    lastOp = "onFaceResults" =>
        /\ Len(overlay) = Len(twin.overlay)
        /\ \A i \in DOMAIN overlay : Placement(overlay[i]) = Placement(twin.overlay[i])

\* C23: a capture only reads the overlay surface: captureImage leaves the
\* overlay, its dimensions, the smoothing store, the selected decoration and the
\* state of the tracking loop as they were.
C23_CaptureReadsOnly ==
    [][lastOp' = "captureImage" =>
          /\ overlay' = overlay
          /\ faceCanvas' = faceCanvas /\ faceCanvasW' = faceCanvasW /\ faceCanvasH' = faceCanvasH
          /\ _s' = _s
          /\ currentDecorationId' = currentDecorationId
          /\ faceDetector' = faceDetector /\ faceFilterActive' = faceFilterActive
          /\ faceAnimFrame' = faceAnimFrame /\ initPc' = initPc
          /\ rafPending' = rafPending /\ sendInFlight' = sendInFlight]_vars

C23_Witness ==
    /\ lastOp = "captureImage" /\ screen = "result"
    /\ overlay # << >> /\ currentDecorationId # "none"
    /\ \E k \in SmoothKeys : _s[k] # Null
    /\ Alive # {}
    /\ \E k \in DOMAIN drawLog : drawLog[k].layer = "overlay"

\* C24: while the selected decoration is 'none' nothing is rendered: the overlay
\* is empty, onFaceResults leaves it empty and the store untouched however many
\* faces it is given, and a capture makes no overlay step.
C24_NoneRendersNothing ==
    currentDecorationId = "none" =>
        /\ overlay = << >>
        /\ lastOp = "captureImage" => \A k \in DOMAIN drawLog : drawLog[k].layer # "overlay"
        /\ \A r \in ResultSet \ {<< >>} :
              onFaceResults([store |-> _s, overlay |-> overlay], r, TRUE, currentDecorationId,
                            currentFacingMode, faceCanvasW, faceCanvasH)
                 = [store |-> _s, overlay |-> << >>]

C24_Witness ==
    /\ lastOp = "onFaceResults" /\ currentDecorationId = "none" /\ faceCanvas
    /\ Len(lastResults) = 2 /\ overlay = << >>

\* C25 (as stated): in plain grain mode the three channels of a pixel draw
\* their noise independently, so a pass about to run can give one pixel three
\* different offsets.
C25_IndependentNoise ==
    (NextPass("applyGrain") /\ ~Head(img.todo).color) =>
        \E noise \in GrainNoise(img.w, img.h, Head(img.todo).a, FALSE) :
           \E p \in Coords(img.w, img.h) :
              noise[p][1] # noise[p][2] \/ noise[p][2] # noise[p][3]

\* C25 (amended): in plain grain mode the three channels of a pixel get the same
\* noise value, drawn per pixel from [-intensity, intensity); each result is
\* clamped to 0..255 and the alpha channel is left as it was.
C25_PlainGrainShared ==
    (lastOp = "applyGrain" /\ ~Head(imgPrev.todo).color) =>
        LET a == Head(imgPrev.todo).a
        IN  \A p \in Coords(img.w, img.h) :
               /\ \E n \in (0 - a) .. (a - 1) :
                     \A c \in 1 .. 3 : img.px[p][c] = Clamp8(imgPrev.px[p][c] + n)
               /\ img.px[p][4] = imgPrev.px[p][4]

C25_Witness ==
    /\ lastOp = "applyGrain" /\ ~Head(imgPrev.todo).color
    /\ \E p, q \in Coords(img.w, img.h) :
          /\ img.px[p][1] - imgPrev.px[p][1] = img.px[p][3] - imgPrev.px[p][3]
          /\ img.px[p][1] # imgPrev.px[p][1]
          /\ img.px[q] = imgPrev.px[q]

\* C26: in a composite with a decoration layer, every landmark of the detected
\* face is at the same output position in the camera layer and in the overlay
\* layer.
C26_SameMapping ==
    (lastOp = "captureImage" /\ screen = "result"
       /\ \E k \in DOMAIN drawLog : drawLog[k].layer = "overlay") =>
        \A i \in DOMAIN lastResults : \A j \in DOMAIN lastResults[i].landmarks :
           LET pt  == lastResults[i].landmarks[j]
               cam == CameraPos(pt, videoW, videoH, crop, currentFacingMode)
               ov  == OverlayPos(pt, faceCanvasW, faceCanvasH, currentFacingMode)
           IN  SameFr(cam.x, ov.x) /\ SameFr(cam.y, ov.y)

\* C27: once no image load is pending, frameImage is null or the image of the
\* frame selected last.
C27_LatestFrame ==
    frames.pending = {} => (frameImage = "null" \/ frames.held = frames.current)

\* C28: the filter of the preview acts on the camera layer only: under every
\* filter of either filter.js and either camera the context has filter 'none',
\* compositing 'source-over', alpha 1 and an empty save stack once the camera
\* layer and the pixel passes are done, and so has the context of a capture when
\* it draws the overlay, the frame and the caption.
C28_FilterOnlyCamera ==
    /\ \A script \in {"first", "second"}, id \in FilterIds, facing \in {"user", "environment"} :
          CtxBeforeOverlay(script, id, facing) = Ctx0
    /\ (lastOp = "captureImage" /\ screen = "result") =>
          /\ drawLog[1].filter = getCanvasFilterString(filterScript, currentFilterId)
          /\ \A k \in DOMAIN drawLog : drawLog[k].layer # "camera" => drawLog[k].filter = "none"
          /\ RunCtx(Ctx0, CameraOps(drawLog[1].filter, currentFacingMode)
                          \o (IF PixelSteps(drawLog) = << >> THEN << >>
                              ELSE AllPassOps(filterScript, PixelSteps(drawLog)[1].passes)))
                = Ctx0

C28_Witness ==
    /\ lastOp = "captureImage" /\ screen = "result"
    /\ drawLog[1].filter # "none" /\ PixelSteps(drawLog) # << >>
    /\ \E k \in DOMAIN drawLog : drawLog[k].layer = "overlay"
    /\ \E k \in DOMAIN drawLog : drawLog[k].layer = "frame"
    /\ \E k \in DOMAIN drawLog : drawLog[k].layer = "caption"

(***************************************************************************)
(* The shutter: every startCountdown call with its three waits.            *)
(***************************************************************************)
\* a mutant of startCountdown: the button stays enabled during the countdown
startCountdownEnabled(c) ==
    [disabled |-> FALSE,
     c        |-> [c EXCEPT !.live = Append(@, 3), !.presses = @ + 1]]

\* startCountdown up to its first await: captureBtn.disabled = true, i = 3
startCountdown(c) ==
    [disabled |-> TRUE,
     c        |-> [c EXCEPT !.live = Append(@, 3), !.presses = @ + 1]]

\* s without its i-th element
DropAt(s, i) == SubSeq(s, 1, i - 1) \o SubSeq(s, i + 1, Len(s))

\* capture-btn click; a disabled button dispatches no click
CaptureBtnClick ==
    /\ page = "app" /\ screen = "camera"
    /\ ~captureBtnDisabled
    /\ countdowns.presses < MaxPresses
    /\ LET r == startCountdown(countdowns)
       IN  /\ captureBtnDisabled' = r.disabled
           /\ countdowns' = r.c
    /\ lastOp' = "other"
    /\ wiped' = FALSE
    /\ UNCHANGED << screen, page, alertShown, crop, lastResults, _s >>
    /\ UNCHANGED << faceVars, cameraVars, logVars, envVars, filterVars, shotVars, pixelVars,
                    twinVars, frameVars >>

\* the timer of the first or second wait of the i-th running startCountdown fires
CountdownWait(i) ==
    /\ countdowns.live[i] > 1
    /\ countdowns' = [countdowns EXCEPT !.live[i] = @ - 1, !.waits = @ + 1]
    /\ lastOp' = "other"
    /\ wiped' = FALSE
    /\ UNCHANGED << lastResults, _s >>
    /\ UNCHANGED << faceVars, cameraVars, uiVars, logVars, envVars, filterVars, shotVars,
                    pixelVars, twinVars, frameVars >>

\* the timer of its third wait fires: captureImage(); captureBtn.disabled = false
CountdownEnd(i) ==
    /\ countdowns.live[i] = 1
    /\ LET r == captureImage(CaptureInput)
       IN  /\ crop' = r.crop
           /\ out' = r.out
           /\ drawLog' = r.log
           /\ resultCanvas' = r.result
           /\ alertShown' = (r.stage # "done")
           /\ screen' = IF r.stage = "done" THEN "result" ELSE screen
    /\ captureBtnDisabled' = FALSE
    /\ countdowns' = [countdowns EXCEPT !.live = DropAt(@, i), !.captures = @ + 1,
                                        !.waits = @ + 1]
    /\ lastOp' = "captureImage"
    /\ wiped' = FALSE
    /\ UNCHANGED << page, lastResults, _s >>
    /\ UNCHANGED << faceVars, cameraVars, logVars, envVars, filterVars, pixelVars, twinVars,
                    frameVars >>

\* sides of the camera frame: none yet, or a real one
ShutterSides == {0, 480, 640}

InitShutter ==
    /\ InitFace /\ InitLog /\ InitUi
    /\ filterScript \in {"first", "second"}
    /\ currentFilterId = "none"
    /\ previewFilter = ""
    /\ frameImage = "null"
    /\ messageConfig = DefaultMessage
    /\ drawFault \in Faults
    /\ InitShot
    /\ InitPixels
    /\ currentFacingMode = "user"
    /\ videoW \in ShutterSides /\ videoH \in ShutterSides
    /\ videoReady = TRUE
    /\ screen = "camera"

NextShutter ==
    \/ CaptureBtnClick
    \/ \E i \in 1 .. MaxPresses : i <= Len(countdowns.live) /\ CountdownWait(i)
    \/ \E i \in 1 .. MaxPresses : i <= Len(countdowns.live) /\ CountdownEnd(i)
    \/ RetakeClick

SpecShutter == InitShutter /\ [][NextShutter]_vars

\* the waits the running startCountdown calls have left
RECURSIVE WaitsLeft(_)
WaitsLeft(live) == IF live = << >> THEN 0 ELSE Head(live) + WaitsLeft(Tail(live))

\* C29: at most one startCountdown call is running at any time; the capture button is
\* disabled exactly while one is; captureImage is called only by a call that has done its
\* first two waits, as its third timer fires, so that every click has got exactly one
\* captureImage call and three waits once its call has returned; and after captureImage,
\* whatever its outcome, the button is enabled again.
C29_OneCountdown ==
    [][ /\ Len(countdowns'.live) <= 1
        /\ captureBtnDisabled' <=> (countdowns'.live # << >>)
        /\ countdowns'.presses = countdowns'.captures + Len(countdowns'.live)
        /\ countdowns'.waits + WaitsLeft(countdowns'.live) = 3 * countdowns'.presses
        /\ (countdowns'.captures # countdowns.captures)
              => /\ countdowns.live = << 1 >>
                 /\ countdowns'.captures = countdowns.captures + 1
                 /\ lastOp' = "captureImage"
        /\ (lastOp' = "captureImage") => ~captureBtnDisabled' ]_vars

\* a second shutter press has ended in a failed composite and left the button enabled
C29_Witness ==
    /\ countdowns.captures = 2 /\ countdowns.live = << >>
    /\ lastOp = "captureImage"
    /\ videoW > 0 /\ videoH > 0 /\ alertShown
    /\ ~captureBtnDisabled

\* a capture of a source that is not ready has left the button enabled
C29_NotReady ==
    /\ countdowns.captures >= 1 /\ lastOp = "captureImage"
    /\ videoW = 0 /\ alertShown /\ ~captureBtnDisabled

\* a capture that reached the result screen has left the button enabled
C29_Success ==
    /\ countdowns.captures >= 1 /\ lastOp = "captureImage"
    /\ screen = "result" /\ ~captureBtnDisabled

====
